---- MODULE Spec2Model ----
(***************************************************************************)
(* Voice interaction subsystem of the project-watch dashboard.             *)
(*                                                                         *)
(* Turn-based design: the AIInsights component (src/unnamed/part_001) and  *)
(* the service functions sendChatMessage, sendVoiceMessage, speakText,     *)
(* stopSpeaking (src/services/geminiService.ts).                           *)
(* Streaming design: startLiveMode / stopLiveMode of the AIInsights        *)
(* component in src/components/ProjectCard.tsx.                            *)
(*                                                                         *)
(* The program is single-threaded and event driven.  Every action below is *)
(* one macrotask: an event handler, or the continuation of an async        *)
(* function from the completion of the I/O it awaits up to its next await  *)
(* on real I/O (promise continuations in between are microtasks and run    *)
(* without any other event in between).                                    *)
(***************************************************************************)
EXTENDS Integers, Sequences, FiniteSets, TLC

\* ------------------------------------------------------------------ bounds
MaxTurns == 2      \* async chains (voice turns, text sends, direct calls) per run
MaxCalls == 2      \* tool calls carried by one model response (service alone)
MaxTurnCalls == 1  \* tool calls carried by one model response (component runs)
MaxProjects == 2   \* chat sessions created (the mount's included)
MaxChunks == 1     \* recorded data chunks that are counted
MaxAttempts == 2   \* startLiveMode calls per run
MaxBufferFrames == 40  \* audio frames captured in a run of the pre-ready buffer alone
MaxFirstFrame == 4     \* first frame of such a run: frames captured before it, plus one
MaxChunksIn == 3   \* audio chunks received in a playback run
MaxClock == 2      \* last value of the output clock
MaxDuration == 1   \* longest audio chunk
MaxRequests == 3   \* calls of requestPermission (hardened hook)
MaxHookRequests == 2   \* calls of requestPermission (src/hooks)
MaxChecks == 2     \* calls of checkExistingPermission
MaxBytes == 3      \* longest byte sequence encoded
MaxSamples == 2    \* samples in an input buffer
MaxSample == 6     \* largest sample numerator: samples range over [-1.5, 1.5]
MaxFrames == 3     \* audio frames the microphone produces per run
MaxMessages == 2        \* server messages carrying a toolCall per run
MaxFunctionCalls == 2   \* functionCalls of one toolCall

VARIABLES
  \* --- React state of AIInsights (turn-based), src/unnamed/part_001:20-28
  isOpen, chatSession, messages, loading, voiceState, voiceError,
  \* --- refs, src/unnamed/part_001:31-33
  mediaRecorderRef, audioChunksRef, streamRef,
  \* --- environment and async chains
  projectsVer,        \* the chat sessions created so far (session ids)
  synthSupported,     \* window.speechSynthesis exists
  turns,              \* the async chains: one record per started chain
  lastOp              \* the control whose handler ran in the last step: "handleVoiceButton",
                      \* "handleSend"; "utteranceError" when the step was the error
                      \* event of an utterance; "none" otherwise

VARIABLES
  \* --- React state of AIInsights (streaming), src/components/ProjectCard.tsx:271-281
  isLiveMode, isLiveActive, showVoiceRecovery,
  \* --- refs, src/components/ProjectCard.tsx:284-290
  audioContextRef, outputAudioContextRef, liveSessionRef, sessionReadyRef,
  audioBufferQueueRef,
  \* --- environment and async chains
  attempts,           \* the startLiveMode calls: one record per call
  nextFrame,          \* the next audio frame the microphone produces
  sent                \* the frames the remote session has accepted, in order

\* Playback of the remote audio (streaming design)
VARIABLES
  nextStartTimeRef,   \* the scheduling cursor
  activeSourcesRef,   \* the Set of sources: positions in `scheduled`
  outputClock,        \* currentTime of the output audio context
  outputState,        \* state of the output audio context: "running", "suspended"
  scheduled,          \* the sources started so far, in the order of their start() calls
  waiting,            \* the onAudioChunk handlers suspended at `await ctx.resume()`
  arrived             \* the number of audio chunks received so far

\* the playback state stopLiveMode leaves alone
VARIABLES
  \* --- useMicrophonePermission (hardened), src/services/dataService.ts:493-498
  state, lastError, visibilityRecoveredRef, requestingRef,
  requests,           \* the calls of requestPermission
  checking,           \* calls of checkExistingPermission waiting for enumerateDevices
  checksStarted,      \* calls of checkExistingPermission so far
  visible,            \* document.visibilityState === 'visible'
  \* --- useMicrophonePermission, src/hooks/useMicrophonePermission.ts:12-13
  hookState, hookLastError,
  hookRequests        \* the calls of its requestPermission

permVars == <<state, lastError, visibilityRecoveredRef, requestingRef, requests,
              checking, checksStarted, visible, hookState, hookLastError,
              hookRequests>>

VARIABLES
  \* --- one use of the audio utilities, src/unnamed/part_002:223-236
  bytes,              \* the Uint8Array given to encode
  base64,             \* the string encode returned, one character per element
  decoded,            \* the Uint8Array decodeBase64 returned
  codecPc             \* "input", "encoded", "decoded"

codecVars == <<bytes, base64, decoded, codecPc>>

VARIABLES
  \* --- one audioprocess event, src/components/ProjectCard.tsx:393-403 and
  \*     src/unnamed/part_000:103-108
  inputData,          \* the samples, as numerators over SampleUnit
  int16,              \* the Int16Array of ProjectCard.tsx, or NotConverted
  olderInt16          \* the Int16Array of part_000, or NotConverted

pcmVars == <<inputData, int16, olderInt16>>

VARIABLES
  \* --- the toolCall branch of onmessage, src/unnamed/part_002:151-172
  functionCalls,      \* the calls received from the session, in order of receipt
  handlers,           \* the onmessage invocation of each toolCall message
  functionResponses   \* the responses passed to session.sendToolResponse, in order

toolVars == <<functionCalls, handlers, functionResponses>>

playOnly == <<nextStartTimeRef, activeSourcesRef, outputClock, outputState,
              waiting, arrived>>
playRest == <<playOnly, permVars, codecVars, pcmVars, toolVars>>
playVars == <<playRest, scheduled>>

sessionVars == <<isLiveMode, isLiveActive, showVoiceRecovery, audioContextRef,
                 outputAudioContextRef, liveSessionRef, sessionReadyRef,
                 audioBufferQueueRef, attempts, nextFrame, sent>>

liveVars == <<sessionVars, playVars>>

tbVars == <<isOpen, chatSession, messages, loading, voiceState, voiceError,
            mediaRecorderRef, audioChunksRef, streamRef, projectsVer,
            synthSupported, turns, lastOp>>

vars == <<tbVars, liveVars>>

\* ------------------------------------------------------------- constants
NoSession == 0                 \* chatSession === null
NoRecorder == 0                \* mediaRecorderRef.current === null
NoStream == 0                  \* streamRef.current === null
NoError == "null"              \* voiceError === null

Greeting == [role |-> "model",
             text |-> "Health assessment complete. Ask me anything about project status or archived history."]

MicError == "Microphone unavailable. Please check permissions."
NoAudioError == "No audio recorded. Please try again."
NoSessionError == "AI service not initialized."
TranscribeError == "Couldn't transcribe that. Please speak clearly and try again."

NoContext == 0                 \* audioContextRef.current === null
NoLiveSession == 0             \* liveSessionRef.current === null
BufferCap == 25                \* frames kept while the session is not ready

TurnIds == 1..MaxTurns
AttemptIds == 1..MaxAttempts

\* a startLiveMode call that has not been made
\* (sessionReclosed, ctxReclosed: close() was called on its session, on its
\* input context, when that had been closed already)
NoAttempt == [pc |-> "free", stream |-> "none", inputCtx |-> "none",
              outputCtx |-> "none", session |-> "none",
              sessionReclosed |-> FALSE, ctxReclosed |-> FALSE]
ToolNames == {"searchProjectHistory", "otherTool"}

\* a turn that has not been started
NoTurn == [kind |-> "none", pc |-> "free", chat |-> NoSession, resolver |-> FALSE,
           message |-> "", calls |-> <<>>, idx |-> 0, results |-> <<>>,
           modelCalls |-> 0, followUp |-> <<>>, response |-> "",
           live |-> FALSE, utt |-> "none", via |-> "", carried |-> 0,
           outcome |-> "none"]

\* sequences over S of length at most n
RECURSIVE SeqsUpTo(_, _)
SeqsUpTo(S, n) ==
  IF n = 0 THEN {<<>>}
  ELSE LET shorter == SeqsUpTo(S, n - 1)
       IN shorter \cup {Append(s, x) : s \in {q \in shorter : Len(q) = n - 1}, x \in S}

\* the first free chain id
FreeTurns == {t \in TurnIds : turns[t].pc = "free"}
NewTurn == CHOOSE t \in FreeTurns : \A u \in FreeTurns : t <= u

\* --------------------------------------------------------- pure helpers
\* String.prototype.trim on the strings the model uses
Trim(s) == IF s = " " THEN "" ELSE s

\* text || fallback
OrElse(text, fallback) == IF text = "" THEN fallback ELSE text

\* what chat.sendMessage can resolve with: text and, optionally, functionCalls
Responses ==
  {[text |-> x, hasCalls |-> FALSE, calls |-> <<>>] : x \in {"", "r"}}
  \cup {[text |-> x, hasCalls |-> TRUE, calls |-> c] :
          x \in {"", "r"}, c \in SeqsUpTo(ToolNames, MaxCalls)}

\* the responses that carry a text (the component runs are explored with
\* these; the empty-text fallbacks are explored by SpecChat)
SpokenResponses ==
  {resp \in Responses : resp.text # "" /\ Len(resp.calls) <= MaxTurnCalls}

\* createProjectChatSession: a new session per call, null when chats.create throws
createProjectChatSession(ver, ok) == IF ok THEN ver ELSE NoSession

\* `if (response.functionCalls && onToolCall)`: an empty array is truthy
TakesToolBranch(resp, resolver) == resp.hasCalls /\ resolver

\* (mutant) the tool name is not looked at
handleToolCallNoNameCheck(name) == "rows"

\* handleToolCall: the value the resolver resolves with
handleToolCall(name) ==
  IF name = "searchProjectHistory" THEN "rows" ELSE "error: Unknown tool"

\* (mutant) unshift instead of push: results in reverse order
PushToolResultFront(results, name, result) ==
  <<[name |-> name, result |-> result]>> \o results

\* toolResults.push({id, name, response: {result}})
PushToolResult(results, name, result) ==
  Append(results, [name |-> name, result |-> result])

\* the loop variable of `for (const fc of response.functionCalls)`
NextCall(idx) == idx + 1

\* the first response's final text / the second response's final text
FirstText(resp) == OrElse(resp.text, "Empty response received.")
SecondText(resp) == OrElse(resp.text, "I found the data but couldn't summarize it.")
ErrorText == "Error: Unknown communication error."
NotInitialized == "AI Service not initialized."

\* (mutant) the empty transcript is not tested for
NoTranscriptNever(transcript) == FALSE

\* the `!transcript` test of sendVoiceMessage and processRecordedAudio
NoTranscript(transcript) == transcript = ""

\* transcribeVoiceClip: (response.text || "").trim(), "" when the request throws
transcribeVoiceClip(outcome) == IF outcome = "throw" THEN "" ELSE Trim(outcome)
TranscribeOutcomes == {"throw", "", " ", "what is archived"}

\* speechSynthesis.cancel(): every queued or speaking utterance is dropped;
\* the utterance that was speaking gets its end/error event later
Cancel(ts) ==
  [u \in TurnIds |->
     IF ts[u].utt = "active" THEN [ts[u] EXCEPT !.utt = "cancelled"] ELSE ts[u]]

\* stopSpeaking
stopSpeaking(ts) == IF synthSupported THEN Cancel(ts) ELSE ts

\* a chain that has run to its end
Finished(rec) == [NoTurn EXCEPT !.pc = "done", !.live = rec.live]

\* recorder.state !== 'inactive' of the recorder of chain t
RecorderActive(t) == t # NoRecorder /\ turns[t].pc = "rec"

\* the user messages and chat exchanges in flight for session s
InFlight(s) ==
  {t \in TurnIds : turns[t].chat = s /\ turns[t].pc \in {"send1", "tool", "send2"}}

\* ---------------------------------------------------------------- Init
\* The state after mount: the mount run of useEffect(..., [projects]) has
\* created the session and the greeting when the projects prop is not empty.
RequestIds == 1..MaxRequests
HookRequestIds == 1..MaxHookRequests

\* a call of requestPermission that has not been made
\* (tries: calls of getUserMedia; err: the error of the first attempt;
\* lastErr: the error of the attempt made last; result: the value returned)
NoRequest == [pc |-> "free", tries |-> 0, err |-> "null", lastErr |-> "null",
              result |-> "none"]

\* the errors getUserMedia rejects with
MediaErrors == {"NotAllowedError", "NotFoundError"}

InitPermVars ==
  /\ state = "unknown"
  /\ lastError = "null"
  /\ visibilityRecoveredRef = FALSE
  /\ requestingRef = FALSE
  /\ requests = [c \in RequestIds |-> NoRequest]
  /\ checking = 1              \* the effect run on mount
  /\ checksStarted = 1
  /\ visible = TRUE
  /\ hookState = "unknown"
  /\ hookLastError = "null"
  /\ hookRequests = [c \in HookRequestIds |-> NoRequest]

\* samples are multiples of 1/SampleUnit
SampleUnit == 4

NotConverted == <<-99999>>

InitPcmVars ==
  /\ inputData = <<>>
  /\ int16 = NotConverted
  /\ olderInt16 = NotConverted

MessageIds == 1..MaxMessages

\* an onmessage invocation that has not happened
NoHandler == [pc |-> "none", calls |-> <<>>, idx |-> 0]

InitToolVars ==
  /\ functionCalls = <<>>
  /\ handlers = [h \in MessageIds |-> NoHandler]
  /\ functionResponses = <<>>

InitCodecVars ==
  /\ bytes = <<>>
  /\ base64 = <<>>
  /\ decoded = <<>>
  /\ codecPc = "input"

InitPlayOnly ==
  /\ nextStartTimeRef = 0
  /\ activeSourcesRef = {}
  /\ outputClock = 0
  /\ outputState = "running"
  /\ scheduled = <<>>
  /\ waiting = <<>>
  /\ arrived = 0

InitPlayVars ==
  /\ InitPermVars
  /\ InitToolVars
  /\ InitCodecVars
  /\ InitPcmVars
  /\ InitPlayOnly

InitLiveVars ==
  /\ InitPlayVars
  /\ isLiveMode = FALSE
  /\ isLiveActive = FALSE
  /\ showVoiceRecovery = FALSE
  /\ audioContextRef = NoContext
  /\ outputAudioContextRef = NoContext
  /\ liveSessionRef = NoLiveSession
  /\ sessionReadyRef = FALSE
  /\ audioBufferQueueRef = <<>>
  /\ attempts = [a \in AttemptIds |-> NoAttempt]
  /\ nextFrame = 1
  /\ sent = <<>>

Init ==
  /\ InitLiveVars
  /\ isOpen = FALSE
  /\ \E nonEmpty \in BOOLEAN, ok \in BOOLEAN :
       IF nonEmpty
       THEN /\ chatSession = createProjectChatSession(1, ok)
            /\ messages = <<Greeting>>
       ELSE /\ chatSession = NoSession
            /\ messages = <<>>
  /\ loading = FALSE
  /\ voiceState = "idle"
  /\ voiceError = NoError
  /\ mediaRecorderRef = NoRecorder
  /\ audioChunksRef = 0
  /\ streamRef = NoStream
  /\ projectsVer = 1
  /\ synthSupported \in BOOLEAN
  /\ turns = [t \in TurnIds |-> NoTurn]
  /\ lastOp = "none"

\* ------------------------------------------------- component: rendering
\* useEffect(..., [projects]): a new projects array re-creates the session
\* and replaces the message list
ProjectsChanged(nonEmpty, ok) ==
  /\ IF nonEmpty
     THEN /\ projectsVer < MaxProjects
          /\ projectsVer' = projectsVer + 1
          /\ chatSession' = createProjectChatSession(projectsVer + 1, ok)
          /\ messages' = <<Greeting>>
     ELSE UNCHANGED <<chatSession, messages, projectsVer>>
  /\ lastOp' = "none"
  /\ UNCHANGED liveVars
  /\ UNCHANGED <<isOpen, loading, voiceState, voiceError, mediaRecorderRef,
                 audioChunksRef, streamRef, synthSupported, turns>>

OpenPanel ==
  /\ ~isOpen
  /\ isOpen' = TRUE
  /\ lastOp' = "none"
  /\ UNCHANGED liveVars
  /\ UNCHANGED <<chatSession, messages, loading, voiceState, voiceError,
                 mediaRecorderRef, audioChunksRef, streamRef, projectsVer,
                 synthSupported, turns>>

\* the close buttons: stopSpeaking(); setIsOpen(false)
ClosePanel ==
  /\ isOpen
  /\ turns' = stopSpeaking(turns)
  /\ isOpen' = FALSE
  /\ lastOp' = "none"
  /\ UNCHANGED liveVars
  /\ UNCHANGED <<chatSession, messages, loading, voiceState, voiceError,
                 mediaRecorderRef, audioChunksRef, streamRef, projectsVer,
                 synthSupported>>

\* ------------------------------------------------ component: voice turn
\* startRecording up to `await getUserMedia`: setVoiceError(null)
startRecording ==
  /\ FreeTurns # {}
  /\ voiceError' = NoError
  /\ turns' = [turns EXCEPT ![NewTurn] =
                 [NoTurn EXCEPT !.kind = "voice", !.pc = "gum",
                                !.chat = chatSession, !.resolver = TRUE]]
  /\ UNCHANGED <<voiceState, mediaRecorderRef>>

\* stopRecording: only a recorder that is not inactive is stopped
stopRecording ==
  IF RecorderActive(mediaRecorderRef)
  THEN /\ turns' = [turns EXCEPT ![mediaRecorderRef].pc = "stopped"]
       /\ voiceState' = "processing"
       /\ UNCHANGED <<voiceError, mediaRecorderRef>>
  ELSE UNCHANGED <<turns, voiceState, voiceError, mediaRecorderRef>>

\* (mutant) a handler whose last branch is a plain `else`: starts again
VoiceButtonBranchNoGuard(vs) ==
  CASE vs = "recording" -> "stopRecording"
    [] vs = "speaking" -> "stopSpeaking"
    [] OTHER -> "startRecording"

\* the branch of handleVoiceButton taken in voice state vs
VoiceButtonBranch(vs) ==
  CASE vs = "recording" -> "stopRecording"
    [] vs = "idle" -> "startRecording"
    [] vs = "speaking" -> "stopSpeaking"
    [] OTHER -> "nothing"

\* disabled={voiceState === 'processing'}
VoiceButtonDisabled == voiceState = "processing"

\* onClick of the voice control
handleVoiceButton ==
  /\ isOpen
  /\ lastOp' = "handleVoiceButton"
  /\ UNCHANGED liveVars
  /\ LET branch == VoiceButtonBranch(voiceState) IN
       CASE branch = "stopRecording" -> stopRecording
         [] branch = "startRecording" -> startRecording
         [] branch = "stopSpeaking" ->
              /\ turns' = stopSpeaking(turns)
              /\ voiceState' = "idle"
              /\ UNCHANGED <<voiceError, mediaRecorderRef>>
         [] OTHER -> UNCHANGED <<turns, voiceState, voiceError, mediaRecorderRef>>
  /\ UNCHANGED <<isOpen, chatSession, messages, loading, audioChunksRef,
                 streamRef, projectsVer, synthSupported>>

\* getUserMedia resolves: the recorder is created and started
GetUserMediaResolves(t) ==
  /\ turns[t].pc = "gum"
  /\ streamRef' = t
  /\ audioChunksRef' = 0
  /\ mediaRecorderRef' = t
  /\ turns' = [turns EXCEPT ![t].pc = "rec", ![t].live = TRUE]
  /\ voiceState' = "recording"
  /\ lastOp' = "none"
  /\ UNCHANGED liveVars
  /\ UNCHANGED <<isOpen, chatSession, messages, loading, voiceError,
                 projectsVer, synthSupported>>

\* (mutant) a catch block that goes idle without surfacing the error
startRecordingCatchSilent ==
  /\ voiceError' = voiceError
  /\ voiceState' = "idle"

\* the catch block of startRecording
startRecordingCatch ==
  /\ voiceError' = MicError
  /\ voiceState' = "idle"

\* getUserMedia rejects
GetUserMediaRejects(t) ==
  /\ turns[t].pc = "gum"
  /\ startRecordingCatch
  /\ turns' = [turns EXCEPT ![t] = Finished(turns[t])]
  /\ lastOp' = "none"
  /\ UNCHANGED liveVars
  /\ UNCHANGED <<isOpen, chatSession, messages, loading, mediaRecorderRef,
                 audioChunksRef, streamRef, projectsVer, synthSupported>>

\* getUserMedia resolves but `new MediaRecorder` or recorder.start throws:
\* the stream is in streamRef, its tracks are not stopped
MediaRecorderThrows(t) ==
  /\ turns[t].pc = "gum"
  /\ streamRef' = t
  /\ audioChunksRef' = 0
  /\ startRecordingCatch
  /\ turns' = [turns EXCEPT ![t] = [Finished(turns[t]) EXCEPT !.live = TRUE]]
  /\ lastOp' = "none"
  /\ UNCHANGED liveVars
  /\ UNCHANGED <<isOpen, chatSession, messages, loading, mediaRecorderRef,
                 projectsVer, synthSupported>>

\* recorder.ondataavailable with a non-empty blob (every 250 ms while
\* recording, and once more between stop() and the stop event)
DataAvailable(t) ==
  /\ turns[t].pc \in {"rec", "stopped"}
  /\ audioChunksRef < MaxChunks
  /\ audioChunksRef' = audioChunksRef + 1
  /\ lastOp' = "none"
  /\ UNCHANGED liveVars
  /\ UNCHANGED <<isOpen, chatSession, messages, loading, voiceState,
                 voiceError, mediaRecorderRef, streamRef, projectsVer,
                 synthSupported, turns>>

\* the recorder stops by itself: its track ended (device unplugged,
\* permission revoked); no handler of the component runs yet
TrackEnded(t) ==
  /\ turns[t].pc = "rec"
  /\ turns' = [turns EXCEPT ![t].pc = "stopped", ![t].live = FALSE]
  /\ lastOp' = "none"
  /\ UNCHANGED liveVars
  /\ UNCHANGED <<isOpen, chatSession, messages, loading, voiceState,
                 voiceError, mediaRecorderRef, audioChunksRef, streamRef,
                 projectsVer, synthSupported>>

\* (mutant) the early returns of processRecordedAudio leave voiceState alone
RecorderOnStopStaysProcessing(t) ==
  /\ turns[t].pc = "stopped"
  /\ streamRef' = NoStream
  /\ lastOp' = "none"
  /\ UNCHANGED liveVars
  /\ IF audioChunksRef = 0
     THEN /\ voiceError' = NoAudioError
          /\ UNCHANGED voiceState
          /\ turns' = [turns EXCEPT ![t] = Finished([turns[t] EXCEPT !.live = FALSE])]
     ELSE IF turns[t].chat = NoSession
     THEN /\ voiceError' = NoSessionError
          /\ UNCHANGED voiceState
          /\ turns' = [turns EXCEPT ![t] = Finished([turns[t] EXCEPT !.live = FALSE])]
     ELSE /\ turns' = [turns EXCEPT ![t].pc = "transcribe", ![t].live = FALSE]
          /\ UNCHANGED <<voiceError, voiceState>>
  /\ UNCHANGED <<isOpen, chatSession, messages, loading, mediaRecorderRef,
                 audioChunksRef, projectsVer, synthSupported>>

\* recorder.onstop: releases the stream, then processRecordedAudio up to
\* the transcription request made by sendVoiceMessage
RecorderOnStop(t) ==
  /\ turns[t].pc = "stopped"
  /\ streamRef' = NoStream
  /\ lastOp' = "none"
  /\ UNCHANGED liveVars
  /\ IF audioChunksRef = 0
     THEN /\ voiceError' = NoAudioError
          /\ voiceState' = "idle"
          /\ turns' = [turns EXCEPT ![t] = Finished([turns[t] EXCEPT !.live = FALSE])]
     ELSE IF turns[t].chat = NoSession
     THEN /\ voiceError' = NoSessionError
          /\ voiceState' = "idle"
          /\ turns' = [turns EXCEPT ![t] = Finished([turns[t] EXCEPT !.live = FALSE])]
     ELSE /\ turns' = [turns EXCEPT ![t].pc = "transcribe", ![t].live = FALSE]
          /\ UNCHANGED <<voiceError, voiceState>>
  /\ UNCHANGED <<isOpen, chatSession, messages, loading, mediaRecorderRef,
                 audioChunksRef, projectsVer, synthSupported>>

\* ------------------------------------------------ service: sendChatMessage
\* sendChatMessage up to its first `await chat.sendMessage({message})`
sendChatMessage(rec, chat, message, resolver) ==
  IF chat = NoSession
  THEN [rec EXCEPT !.pc = "returned", !.response = NotInitialized, !.via = "null"]
  ELSE [rec EXCEPT !.pc = "send1", !.chat = chat, !.message = message,
                   !.resolver = resolver, !.modelCalls = 1]

\* (mutant) speakText without speechSynthesis.cancel()
speakTextNoCancel(ts, t, text) ==
  IF synthSupported
  THEN [ts EXCEPT ![t].pc = "speak", ![t].utt = "active", ![t].response = text]
  ELSE [ts EXCEPT ![t] = Finished(ts[t])]

\* speakText(text) called by chain t: the synchronous part of the promise
speakText(ts, t, text) ==
  IF synthSupported
  THEN [Cancel(ts) EXCEPT ![t].pc = "speak", ![t].utt = "active", ![t].response = text]
  ELSE [ts EXCEPT ![t] = Finished(ts[t])]

\* (mutant) the response is appended before the transcript
VoiceTurnMessagesSwapped(transcript, response) ==
  <<[role |-> "model", text |-> response], [role |-> "user", text |-> transcript]>>

\* the turns appended for a voice turn
VoiceTurnMessages(transcript, response) ==
  <<[role |-> "user", text |-> transcript], [role |-> "model", text |-> response]>>

\* sendChatMessage returns `text` to its caller, which runs up to its next await:
\*  - handleSend appends the model turn and clears loading
\*  - sendVoiceMessage returns {transcript, response}; processRecordedAudio
\*    appends both turns, sets 'speaking' and calls speakText
\*  - a direct caller just holds the result
\* (via, carried: which return statement ran and how many function calls the
\* first response carried, kept with a direct caller's result)
ChatReturns(t, text, via, carried) ==
  CASE turns[t].kind = "text" ->
         /\ messages' = Append(messages, [role |-> "model", text |-> text])
         /\ loading' = FALSE
         /\ turns' = [turns EXCEPT ![t] = Finished(turns[t])]
         /\ UNCHANGED voiceState
    [] turns[t].kind = "voice" ->
         /\ messages' = messages \o VoiceTurnMessages(turns[t].message, text)
         /\ voiceState' = IF synthSupported THEN "speaking" ELSE "idle"
         /\ turns' = speakText(turns, t, text)
         /\ UNCHANGED loading
    [] OTHER ->
         /\ turns' = [turns EXCEPT ![t].pc = "returned", ![t].response = text,
                                   ![t].via = via, ![t].carried = carried]
         /\ UNCHANGED <<messages, loading, voiceState>>

\* the first chat.sendMessage resolves
ModelResponds(t, resp) ==
  /\ turns[t].pc = "send1"
  /\ lastOp' = "none"
  /\ UNCHANGED liveVars
  /\ IF TakesToolBranch(resp, turns[t].resolver)
     THEN IF resp.calls = <<>>
          THEN \* the loop body never runs: the follow-up is sent at once
               /\ turns' = [turns EXCEPT ![t].pc = "send2", ![t].calls = resp.calls,
                                         ![t].followUp = <<>>,
                                         ![t].modelCalls = @ + 1]
               /\ UNCHANGED <<messages, loading, voiceState>>
          ELSE /\ turns' = [turns EXCEPT ![t].pc = "tool", ![t].calls = resp.calls,
                                         ![t].idx = 1, ![t].results = <<>>]
               /\ UNCHANGED <<messages, loading, voiceState>>
     ELSE ChatReturns(t, FirstText(resp), "first", Len(resp.calls))
  /\ UNCHANGED <<isOpen, chatSession, voiceError, mediaRecorderRef,
                 audioChunksRef, streamRef, projectsVer, synthSupported>>

\* `await onToolCall(fc.name, fc.args)` resolves
ToolReturns(t) ==
  /\ turns[t].pc = "tool"
  /\ lastOp' = "none"
  /\ UNCHANGED liveVars
  /\ LET name == turns[t].calls[turns[t].idx]
         results == PushToolResult(turns[t].results, name, handleToolCall(name))
     IN IF NextCall(turns[t].idx) <= Len(turns[t].calls)
        THEN turns' = [turns EXCEPT ![t].idx = NextCall(@), ![t].results = results]
        ELSE turns' = [turns EXCEPT ![t].pc = "send2", ![t].idx = 0,
                                    ![t].results = <<>>, ![t].followUp = results,
                                    ![t].modelCalls = @ + 1]
  /\ UNCHANGED <<isOpen, chatSession, messages, loading, voiceState,
                 voiceError, mediaRecorderRef, audioChunksRef, streamRef,
                 projectsVer, synthSupported>>

\* the follow-up chat.sendMessage resolves; its functionCalls are ignored
ModelRespondsAgain(t, resp) ==
  /\ turns[t].pc = "send2"
  /\ lastOp' = "none"
  /\ UNCHANGED liveVars
  /\ ChatReturns(t, SecondText(resp), "second", Len(turns[t].calls))
  /\ UNCHANGED <<isOpen, chatSession, voiceError, mediaRecorderRef,
                 audioChunksRef, streamRef, projectsVer, synthSupported>>

\* chat.sendMessage rejects, or the resolver rejects (handleToolCall reads
\* args.query of a call without args): the catch returns the error text
ExchangeFails(t) ==
  /\ \/ turns[t].pc \in {"send1", "send2"}
     \/ turns[t].pc = "tool" /\ turns[t].calls[turns[t].idx] = "searchProjectHistory"
  /\ lastOp' = "none"
  /\ UNCHANGED liveVars
  /\ ChatReturns(t, ErrorText, "catch", Len(turns[t].calls))
  /\ UNCHANGED <<isOpen, chatSession, voiceError, mediaRecorderRef,
                 audioChunksRef, streamRef, projectsVer, synthSupported>>

\* ------------------------------------------------ service: sendVoiceMessage
\* transcribeVoiceClip resolves; sendVoiceMessage and processRecordedAudio
\* run on: an empty transcript ends the turn, otherwise the chat exchange starts
TranscribeReturns(t, outcome) ==
  /\ turns[t].kind = "voice"
  /\ turns[t].pc = "transcribe"
  /\ lastOp' = "none"
  /\ UNCHANGED liveVars
  /\ LET transcript == transcribeVoiceClip(outcome) IN
       IF NoTranscript(transcript)
       THEN /\ voiceError' = TranscribeError
            /\ voiceState' = "idle"
            /\ turns' = [turns EXCEPT ![t] = Finished(turns[t])]
       ELSE /\ turns' = [turns EXCEPT ![t] =
                           sendChatMessage(turns[t], turns[t].chat, transcript,
                                           turns[t].resolver)]
            /\ UNCHANGED <<voiceError, voiceState>>
  /\ UNCHANGED <<isOpen, chatSession, messages, loading, mediaRecorderRef,
                 audioChunksRef, streamRef, projectsVer, synthSupported>>

ProcessingError == "Voice processing failed. Please try again."

\* (mutant) utterance.onerror rejects the promise
OnUtteranceErrorRejects == "reject"

\* utterance.onerror: resolve()
OnUtteranceError == "resolve"

\* utterance.onend (how = "end") / utterance.onerror (how = "error": the
\* synthesis failed or the utterance was cancelled) of chain t's utterance.
\* The promise resolves and processRecordedAudio finishes with
\* setVoiceState('idle'); a rejected promise would run its catch block.
UtteranceDone(t, how) ==
  /\ turns[t].kind = "voice"
  /\ turns[t].pc = "speak"
  /\ voiceState' = "idle"
  /\ IF how = "error" /\ OnUtteranceError = "reject"
     THEN voiceError' = ProcessingError
     ELSE UNCHANGED voiceError
  /\ turns' = [turns EXCEPT ![t] = Finished(turns[t])]
  /\ lastOp' = IF how = "error" THEN "utteranceError" ELSE "none"
  /\ UNCHANGED liveVars
  /\ UNCHANGED <<isOpen, chatSession, messages, loading,
                 mediaRecorderRef, audioChunksRef, streamRef, projectsVer,
                 synthSupported>>

\* ------------------------------------------------ component: text send
\* `input` is the text typed into the field when the send control is used;
\* setInput('') leaves the field empty for the next typing
handleSend(input) ==
  /\ isOpen
  /\ lastOp' = "handleSend"
  /\ UNCHANGED liveVars
  /\ IF Trim(input) = "" \/ loading \/ chatSession = NoSession
     THEN UNCHANGED <<messages, loading, turns>>
     ELSE /\ FreeTurns # {}
          /\ messages' = Append(messages, [role |-> "user", text |-> input])
          /\ loading' = TRUE
          /\ turns' = [turns EXCEPT ![NewTurn] =
                         sendChatMessage([NoTurn EXCEPT !.kind = "text"],
                                         chatSession, input, TRUE)]
  /\ UNCHANGED <<isOpen, chatSession, voiceState, voiceError, mediaRecorderRef,
                 audioChunksRef, streamRef, projectsVer, synthSupported>>

\* ------------------------------------------------ the service called directly
\* sendChatMessage(chat, message, onToolCall?) with any arguments
CallSendChatMessage(chat, resolver) ==
  /\ FreeTurns # {}
  /\ turns' = [turns EXCEPT ![NewTurn] =
                 sendChatMessage([NoTurn EXCEPT !.kind = "direct"], chat, "m", resolver)]
  /\ lastOp' = "none"
  /\ UNCHANGED liveVars
  /\ UNCHANGED <<isOpen, chatSession, messages, loading, voiceState,
                 voiceError, mediaRecorderRef, audioChunksRef, streamRef,
                 projectsVer, synthSupported>>

\* the texts sendVoiceMessage returns without a chat exchange
CouldNotTranscribe == "Could not transcribe audio. Please try again."
VoiceErrorText == "Error: Missing Gemini API key"

\* (mutant) the null check of sendVoiceMessage is missing
sendVoiceMessageNoNullCheck(rec, chat, resolver) ==
  [rec EXCEPT !.pc = "transcribe", !.chat = chat, !.resolver = resolver]

\* sendVoiceMessage up to `await transcribeVoiceClip(...)`
sendVoiceMessage(rec, chat, resolver) ==
  IF chat = NoSession
  THEN [rec EXCEPT !.pc = "returned", !.response = NotInitialized, !.via = "null"]
  ELSE [rec EXCEPT !.pc = "transcribe", !.chat = chat, !.resolver = resolver]

\* sendVoiceMessage(audioBlob, chat, onToolCall?) with any arguments
CallSendVoiceMessage(chat, resolver) ==
  /\ FreeTurns # {}
  /\ turns' = [turns EXCEPT ![NewTurn] =
                 sendVoiceMessage([NoTurn EXCEPT !.kind = "directVoice"], chat, resolver)]
  /\ lastOp' = "none"
  /\ UNCHANGED liveVars
  /\ UNCHANGED <<isOpen, chatSession, messages, loading, voiceState,
                 voiceError, mediaRecorderRef, audioChunksRef, streamRef,
                 projectsVer, synthSupported>>

\* the transcription step of a direct sendVoiceMessage call settles:
\*  - "reject": transcribeVoiceClip rejects (getApiKey throws before its try)
\*    or audioBlob.arrayBuffer() rejects; the catch returns the error text
\*  - otherwise transcribeVoiceClip resolves; an empty transcript returns the
\*    fixed text, a transcript starts the chat exchange
VoiceMessageTranscribed(t, outcome) ==
  /\ turns[t].kind = "directVoice"
  /\ turns[t].pc = "transcribe"
  /\ lastOp' = "none"
  /\ UNCHANGED liveVars
  /\ LET rec == [turns[t] EXCEPT !.outcome = outcome] IN
       IF outcome = "reject"
       THEN turns' = [turns EXCEPT ![t] =
                        [rec EXCEPT !.pc = "returned", !.response = VoiceErrorText,
                                    !.via = "voiceCatch"]]
       ELSE IF NoTranscript(transcribeVoiceClip(outcome))
       THEN turns' = [turns EXCEPT ![t] =
                        [rec EXCEPT !.pc = "returned", !.response = CouldNotTranscribe,
                                    !.via = "noTranscript"]]
       ELSE turns' = [turns EXCEPT ![t] =
                        sendChatMessage(rec, rec.chat, transcribeVoiceClip(outcome),
                                        rec.resolver)]
  /\ UNCHANGED <<isOpen, chatSession, messages, loading, voiceState,
                 voiceError, mediaRecorderRef, audioChunksRef, streamRef,
                 projectsVer, synthSupported>>

\* transcribeVoiceClip(audioBytes, mimeType) called directly
CallTranscribeVoiceClip ==
  /\ FreeTurns # {}
  /\ turns' = [turns EXCEPT ![NewTurn] =
                 [NoTurn EXCEPT !.kind = "directTranscribe", !.pc = "transcribe"]]
  /\ lastOp' = "none"
  /\ UNCHANGED liveVars
  /\ UNCHANGED <<isOpen, chatSession, messages, loading, voiceState,
                 voiceError, mediaRecorderRef, audioChunksRef, streamRef,
                 projectsVer, synthSupported>>

\* a direct transcribeVoiceClip call settles: it rejects when getApiKey
\* throws (before the try), otherwise it resolves with the trimmed text, or
\* with "" when the request threw
TranscribeClipSettles(t, outcome) ==
  /\ turns[t].kind = "directTranscribe"
  /\ turns[t].pc = "transcribe"
  /\ turns' = [turns EXCEPT ![t].outcome = outcome,
                            ![t].pc = IF outcome = "reject" THEN "rejected" ELSE "returned",
                            ![t].response = IF outcome = "reject" THEN ""
                                            ELSE transcribeVoiceClip(outcome)]
  /\ lastOp' = "none"
  /\ UNCHANGED liveVars
  /\ UNCHANGED <<isOpen, chatSession, messages, loading, voiceState,
                 voiceError, mediaRecorderRef, audioChunksRef, streamRef,
                 projectsVer, synthSupported>>

\* speakText(text) called directly
CallSpeakText ==
  /\ FreeTurns # {}
  /\ turns' = speakText([turns EXCEPT ![NewTurn].kind = "directSpeak"], NewTurn, "r")
  /\ lastOp' = "none"
  /\ UNCHANGED liveVars
  /\ UNCHANGED <<isOpen, chatSession, messages, loading, voiceState,
                 voiceError, mediaRecorderRef, audioChunksRef, streamRef,
                 projectsVer, synthSupported>>

\* stopSpeaking() called directly
CallStopSpeaking ==
  /\ turns' = stopSpeaking(turns)
  /\ lastOp' = "none"
  /\ UNCHANGED liveVars
  /\ UNCHANGED <<isOpen, chatSession, messages, loading, voiceState,
                 voiceError, mediaRecorderRef, audioChunksRef, streamRef,
                 projectsVer, synthSupported>>

\* utterance.onend / utterance.onerror of a direct call's utterance: the
\* promise resolves
SpeakTextResolves(t) ==
  /\ turns[t].kind = "directSpeak"
  /\ turns[t].pc = "speak"
  /\ turns' = [turns EXCEPT ![t].pc = "returned", ![t].utt = "none",
                            ![t].via = "resolved"]
  /\ lastOp' = "none"
  /\ UNCHANGED liveVars
  /\ UNCHANGED <<isOpen, chatSession, messages, loading, voiceState,
                 voiceError, mediaRecorderRef, audioChunksRef, streamRef,
                 projectsVer, synthSupported>>

\* ---------------------------------------------------------------- Next
Inputs == {"", " ", "hi"}

Next ==
  \/ \E nonEmpty \in BOOLEAN, ok \in BOOLEAN : ProjectsChanged(nonEmpty, ok)
  \/ OpenPanel
  \/ ClosePanel
  \/ \E text \in Inputs : handleSend(text)
  \/ handleVoiceButton
  \/ \E t \in TurnIds : GetUserMediaResolves(t)
  \/ \E t \in TurnIds : GetUserMediaRejects(t)
  \/ \E t \in TurnIds : MediaRecorderThrows(t)
  \/ \E t \in TurnIds : DataAvailable(t)
  \/ \E t \in TurnIds : TrackEnded(t)
  \/ \E t \in TurnIds : RecorderOnStop(t)
  \/ \E t \in TurnIds, o \in TranscribeOutcomes : TranscribeReturns(t, o)
  \/ \E t \in TurnIds, resp \in SpokenResponses : ModelResponds(t, resp)
  \/ \E t \in TurnIds : ToolReturns(t)
  \/ \E t \in TurnIds, resp \in SpokenResponses : ModelRespondsAgain(t, resp)
  \/ \E t \in TurnIds : ExchangeFails(t)
  \/ \E t \in TurnIds, how \in {"end", "error"} : UtteranceDone(t, how)

Spec == Init /\ [][Next]_vars

\* the next event of chain t: the stop event of its recorder, the return or
\* failure of its remote call or tool search, the end or error of its
\* utterance
Continues(t) ==
  \/ RecorderOnStop(t)
  \/ \E o \in TranscribeOutcomes : TranscribeReturns(t, o)
  \/ \E resp \in SpokenResponses : ModelResponds(t, resp)
  \/ ToolReturns(t)
  \/ \E resp \in SpokenResponses : ModelRespondsAgain(t, resp)
  \/ ExchangeFails(t)
  \/ \E how \in {"end", "error"} : UtteranceDone(t, how)

\* every pending event of a chain is delivered in the end
SpecProgress == Spec /\ \A t \in TurnIds : WF_vars(Continues(t))

\* the service function on its own: every argument combination
NextChat ==
  \/ \E chat \in {NoSession, 1}, resolver \in BOOLEAN : CallSendChatMessage(chat, resolver)
  \/ \E t \in TurnIds, resp \in Responses : ModelResponds(t, resp)
  \/ \E t \in TurnIds : ToolReturns(t)
  \/ \E t \in TurnIds, resp \in Responses : ModelRespondsAgain(t, resp)
  \/ \E t \in TurnIds : ExchangeFails(t)
  \/ \E chat \in {NoSession, 1}, resolver \in BOOLEAN : CallSendVoiceMessage(chat, resolver)
  \/ \E t \in TurnIds, o \in TranscribeOutcomes \cup {"reject"} :
       VoiceMessageTranscribed(t, o)
  \/ CallTranscribeVoiceClip
  \/ \E t \in TurnIds, o \in TranscribeOutcomes \cup {"reject"} :
       TranscribeClipSettles(t, o)
  \/ CallSpeakText
  \/ CallStopSpeaking
  \/ \E t \in TurnIds : SpeakTextResolves(t)

SpecChat == Init /\ [][NextChat]_vars

\* =============================================== streaming design (live)
FreeAttempts == {a \in AttemptIds : attempts[a].pc = "free"}
NewAttempt == CHOOSE a \in FreeAttempts : \A b \in FreeAttempts : a <= b

\* session.close() / context.close() on the object a ref points to
CloseSession(as, ref) ==
  IF ref = NoLiveSession THEN as
  ELSE IF as[ref].session = "open" THEN [as EXCEPT ![ref].session = "closing"]
  ELSE [as EXCEPT ![ref].sessionReclosed = TRUE]
CloseInputContext(as, ref) ==
  IF ref = NoContext THEN as
  ELSE IF as[ref].inputCtx = "open" THEN [as EXCEPT ![ref].inputCtx = "closed"]
  ELSE [as EXCEPT ![ref].ctxReclosed = TRUE]

\* activeSourcesRef.current.forEach(s => s.stop())
StopSources(srcs, active) ==
  [i \in 1..Len(srcs) |-> IF i \in active THEN [srcs[i] EXCEPT !.stopped = TRUE]
                                          ELSE srcs[i]]

\* stopLiveMode: clears the flags, the ready flag and the buffer, closes the
\* session and the input context the refs point to and stops the sources in
\* the set (the refs stay set; the stream and the output context are not
\* touched, the set is not emptied)
stopLiveMode ==
  /\ scheduled' = StopSources(scheduled, activeSourcesRef)
  /\ isLiveActive' = FALSE
  /\ isLiveMode' = FALSE
  /\ sessionReadyRef' = FALSE
  /\ audioBufferQueueRef' = <<>>
  /\ attempts' = CloseInputContext(CloseSession(attempts, liveSessionRef), audioContextRef)

\* startLiveMode up to `await getUserMedia`
startLiveMode ==
  /\ FreeAttempts # {}
  /\ sessionReadyRef' = FALSE
  /\ audioBufferQueueRef' = <<>>
  /\ attempts' = [attempts EXCEPT ![NewAttempt].pc = "gum"]
  /\ UNCHANGED <<isLiveActive, isLiveMode, scheduled>>

\* the catch block of startLiveMode
startLiveModeCatch == showVoiceRecovery' = TRUE

\* onClick of the voice control: isLiveActive ? stopLiveMode() : startLiveMode()
LiveVoiceButton ==
  /\ IF isLiveActive THEN stopLiveMode ELSE startLiveMode
  /\ UNCHANGED <<showVoiceRecovery, audioContextRef, outputAudioContextRef,
                 liveSessionRef, nextFrame, sent>>
  /\ UNCHANGED tbVars
  /\ UNCHANGED playRest

\* VoiceRecoverySheet.onRetry: setShowVoiceRecovery(false); startLiveMode()
RecoveryRetry ==
  /\ showVoiceRecovery
  /\ showVoiceRecovery' = FALSE
  /\ startLiveMode
  /\ UNCHANGED <<audioContextRef, outputAudioContextRef, liveSessionRef,
                 nextFrame, sent>>
  /\ UNCHANGED tbVars
  /\ UNCHANGED playRest

\* VoiceRecoverySheet.onRecordFallback and onReset: setShowVoiceRecovery(false)
RecoveryDismiss ==
  /\ showVoiceRecovery
  /\ showVoiceRecovery' = FALSE
  /\ UNCHANGED <<isLiveMode, isLiveActive, audioContextRef, outputAudioContextRef,
                 liveSessionRef, sessionReadyRef, audioBufferQueueRef, attempts,
                 nextFrame, sent>>
  /\ UNCHANGED tbVars
  /\ UNCHANGED playVars

\* getUserMedia resolves: both contexts are created, `await inputCtx.resume()`
LiveMicGranted(a) ==
  /\ attempts[a].pc = "gum"
  /\ attempts' = [attempts EXCEPT ![a].pc = "resumeIn", ![a].stream = "live",
                                  ![a].inputCtx = "open", ![a].outputCtx = "open"]
  /\ UNCHANGED <<isLiveMode, isLiveActive, showVoiceRecovery, audioContextRef,
                 outputAudioContextRef, liveSessionRef, sessionReadyRef,
                 audioBufferQueueRef, nextFrame, sent>>
  /\ UNCHANGED tbVars
  /\ UNCHANGED playVars

\* inputCtx.resume() resolves: `await outputCtx.resume()`
InputResumed(a) ==
  /\ attempts[a].pc = "resumeIn"
  /\ attempts' = [attempts EXCEPT ![a].pc = "resumeOut"]
  /\ UNCHANGED <<isLiveMode, isLiveActive, showVoiceRecovery, audioContextRef,
                 outputAudioContextRef, liveSessionRef, sessionReadyRef,
                 audioBufferQueueRef, nextFrame, sent>>
  /\ UNCHANGED tbVars
  /\ UNCHANGED playVars

\* outputCtx.resume() resolves: the refs are set, the session is marked
\* active, connectToLiveAnalyst is called, `await sessionPromise`
OutputResumed(a) ==
  /\ attempts[a].pc = "resumeOut"
  /\ audioContextRef' = a
  /\ outputAudioContextRef' = a
  /\ isLiveActive' = TRUE
  /\ isLiveMode' = TRUE
  /\ attempts' = [attempts EXCEPT ![a].pc = "connect"]
  /\ outputClock' = 0          \* the clock of the context just created
  /\ outputState' = "running"
  /\ UNCHANGED <<showVoiceRecovery, liveSessionRef, sessionReadyRef,
                 audioBufferQueueRef, nextFrame, sent>>
  /\ UNCHANGED tbVars
  /\ UNCHANGED <<nextStartTimeRef, activeSourcesRef, waiting, arrived, scheduled,
                 permVars, codecVars, pcmVars, toolVars>>

\* the session promise resolves: liveSessionRef is set, the warm-up timer starts
LiveConnected(a) ==
  /\ attempts[a].pc = "connect"
  /\ liveSessionRef' = a
  /\ attempts' = [attempts EXCEPT ![a].pc = "warmup", ![a].session = "open"]
  /\ UNCHANGED <<isLiveMode, isLiveActive, showVoiceRecovery, audioContextRef,
                 outputAudioContextRef, sessionReadyRef, audioBufferQueueRef,
                 nextFrame, sent>>
  /\ UNCHANGED tbVars
  /\ UNCHANGED playVars

\* an awaited step of startLiveMode rejects or a setup call throws (microphone
\* refused, AudioContext resume, connectToLiveAnalyst): the catch block runs
LiveStepFails(a) ==
  /\ attempts[a].pc \in {"gum", "resumeIn", "resumeOut", "connect"}
  /\ startLiveModeCatch
  /\ attempts' = [attempts EXCEPT ![a].pc = "failed"]
  /\ UNCHANGED <<isLiveMode, isLiveActive, audioContextRef, outputAudioContextRef,
                 liveSessionRef, sessionReadyRef, audioBufferQueueRef, nextFrame,
                 sent>>
  /\ UNCHANGED tbVars
  /\ UNCHANGED playVars

\* the flush loop: the frames before position k are accepted; the session
\* rejects the frame at k (k = Len + 1: none is rejected), which is pushed
\* back, and the loop breaks
FlushSent(queued, k) == SubSeq(queued, 1, k - 1)
FlushKept(queued, k) == IF k <= Len(queued) THEN <<queued[k]>> ELSE <<>>

\* the 300 ms warm-up elapses: the session is ready, the queue is flushed,
\* the script processor is attached to the microphone
WarmupElapsed(a, k) ==
  /\ attempts[a].pc = "warmup"
  /\ k \in 1..(Len(audioBufferQueueRef) + 1)
  /\ sessionReadyRef' = TRUE
  /\ sent' = sent \o FlushSent(audioBufferQueueRef, k)
  /\ audioBufferQueueRef' = FlushKept(audioBufferQueueRef, k)
  /\ attempts' = [attempts EXCEPT ![a].pc = "running"]
  /\ UNCHANGED <<isLiveMode, isLiveActive, showVoiceRecovery, audioContextRef,
                 outputAudioContextRef, liveSessionRef, nextFrame>>
  /\ UNCHANGED tbVars
  /\ UNCHANGED playVars

\* the warm-up elapses but a setup call after the flush throws
\* (createMediaStreamSource, createScriptProcessor): the catch block runs
LiveSetupThrows(a, k) ==
  /\ attempts[a].pc = "warmup"
  /\ k \in 1..(Len(audioBufferQueueRef) + 1)
  /\ sessionReadyRef' = TRUE
  /\ sent' = sent \o FlushSent(audioBufferQueueRef, k)
  /\ audioBufferQueueRef' = FlushKept(audioBufferQueueRef, k)
  /\ startLiveModeCatch
  /\ attempts' = [attempts EXCEPT ![a].pc = "failed"]
  /\ UNCHANGED <<isLiveMode, isLiveActive, audioContextRef, outputAudioContextRef,
                 liveSessionRef, nextFrame>>
  /\ UNCHANGED tbVars
  /\ UNCHANGED playVars

\* (mutant) the excess is removed at the end of the queue
PushCappedDropNewest(q, frame) ==
  LET pushed == Append(q, frame)
  IN IF Len(pushed) > BufferCap THEN SubSeq(pushed, 1, BufferCap) ELSE pushed

\* q.push(frame); if (q.length > 25) q.splice(0, q.length - 25)
PushCapped(q, frame) ==
  LET pushed == Append(q, frame)
  IN IF Len(pushed) > BufferCap
     THEN SubSeq(pushed, Len(pushed) - BufferCap + 1, Len(pushed))
     ELSE pushed

\* (mutant) the body of processor.onaudioprocess without the readiness test
onaudioprocessNoGate(accepted) ==
  /\ nextFrame' = nextFrame + 1
  /\ sent' = IF accepted /\ liveSessionRef # NoLiveSession
             THEN Append(sent, nextFrame) ELSE sent
  /\ UNCHANGED audioBufferQueueRef
  /\ UNCHANGED <<isLiveMode, isLiveActive, showVoiceRecovery, audioContextRef,
                 outputAudioContextRef, liveSessionRef, sessionReadyRef, attempts>>
  /\ UNCHANGED playVars

\* the body of processor.onaudioprocess: the captured frame is buffered
\* while the session is not ready, handed to the current session's
\* sendRealtimeInput otherwise (accepted: the call returns; otherwise it
\* throws out of the callback)
onaudioprocess(accepted) ==
  /\ nextFrame' = nextFrame + 1
  /\ IF ~sessionReadyRef
     THEN /\ audioBufferQueueRef' = PushCapped(audioBufferQueueRef, nextFrame)
          /\ UNCHANGED sent
     ELSE /\ sent' = IF accepted /\ liveSessionRef # NoLiveSession
                     THEN Append(sent, nextFrame) ELSE sent
          /\ UNCHANGED audioBufferQueueRef
  /\ UNCHANGED <<isLiveMode, isLiveActive, showVoiceRecovery, audioContextRef,
                 outputAudioContextRef, liveSessionRef, sessionReadyRef, attempts>>
  /\ UNCHANGED playVars

\* processor.onaudioprocess of attempt a's processor fires
OnAudioProcess(a, accepted) ==
  /\ attempts[a].pc = "running"
  /\ attempts[a].inputCtx = "open"
  /\ attempts[a].stream = "live"
  /\ nextFrame <= MaxFrames
  /\ onaudioprocess(accepted)
  /\ UNCHANGED tbVars

\* the session's onclose / onerror callback (after session.close(), or the
\* remote side closing or failing): stopLiveMode()
LiveSessionClosed(a) ==
  /\ attempts[a].session \in {"open", "closing"}
  /\ scheduled' = StopSources(scheduled, activeSourcesRef)
  /\ isLiveActive' = FALSE
  /\ isLiveMode' = FALSE
  /\ sessionReadyRef' = FALSE
  /\ audioBufferQueueRef' = <<>>
  /\ attempts' = CloseInputContext(
                   CloseSession([attempts EXCEPT ![a].session = "closed"],
                                liveSessionRef), audioContextRef)
  /\ UNCHANGED <<showVoiceRecovery, audioContextRef, outputAudioContextRef,
                 liveSessionRef, nextFrame, sent>>
  /\ UNCHANGED tbVars
  /\ UNCHANGED playRest

\* the two other buttons of the recovery sheet have the same handler body:
\* setShowVoiceRecovery(false)
onRecordFallback == RecoveryDismiss

onReset == RecoveryDismiss

\* the dialogs AIInsights renders over its panel: the recovery sheet while
\* showVoiceRecovery is set, and no other
Rendered == IF showVoiceRecovery THEN {"VoiceRecoverySheet"} ELSE {}

NextLive ==
  \/ LiveVoiceButton
  \/ RecoveryRetry
  \/ RecoveryDismiss
  \/ \E a \in AttemptIds : LiveMicGranted(a)
  \/ \E a \in AttemptIds : InputResumed(a)
  \/ \E a \in AttemptIds : OutputResumed(a)
  \/ \E a \in AttemptIds : LiveConnected(a)
  \/ \E a \in AttemptIds : LiveStepFails(a)
  \/ \E a \in AttemptIds, k \in 1..(BufferCap + 1) : WarmupElapsed(a, k)
  \/ \E a \in AttemptIds, k \in 1..(BufferCap + 1) : LiveSetupThrows(a, k)
  \/ \E a \in AttemptIds, accepted \in BOOLEAN : OnAudioProcess(a, accepted)
  \/ \E a \in AttemptIds : LiveSessionClosed(a)

\* the streaming component after mount (the turn-based variables stay put)
InitLive ==
  /\ InitLiveVars
  /\ isOpen = FALSE
  /\ chatSession = NoSession
  /\ messages = <<>>
  /\ loading = FALSE
  /\ voiceState = "idle"
  /\ voiceError = NoError
  /\ mediaRecorderRef = NoRecorder
  /\ audioChunksRef = 0
  /\ streamRef = NoStream
  /\ projectsVer = 1
  /\ synthSupported = TRUE
  /\ turns = [t \in TurnIds |-> NoTurn]
  /\ lastOp = "none"

SpecLive == InitLive /\ [][NextLive]_vars

\* ---------------------------------------- the pre-ready buffer on its own
\* processor.onaudioprocess of attempt a's processor fires while the session
\* is not ready (a long run of frames)
BufferedAudioProcess(a, accepted) ==
  /\ attempts[a].pc = "running"
  /\ attempts[a].inputCtx = "open"
  /\ attempts[a].stream = "live"
  /\ ~sessionReadyRef
  /\ nextFrame <= MaxBufferFrames
  /\ onaudioprocess(accepted)
  /\ UNCHANGED tbVars

\* n consecutive frames, the first numbered first
FramesFrom(first, n) == [i \in 1..n |-> first + i - 1]

\* A state in which a processor keeps capturing while the session is not
\* ready: two overlapping starts, the second one failed, the first one is
\* running and stopLiveMode has cleared the ready flag and closed the context
\* and the session the refs pointed to.  The buffer holds the n frames
\* captured last.
InitBuffer ==
  /\ InitPlayVars
  /\ isLiveMode = FALSE
  /\ isLiveActive = FALSE
  /\ showVoiceRecovery = TRUE
  /\ audioContextRef = 2
  /\ outputAudioContextRef = 2
  /\ liveSessionRef = 1
  /\ sessionReadyRef = FALSE
  /\ attempts = [a \in AttemptIds |->
        IF a = 1
        THEN [NoAttempt EXCEPT !.pc = "running", !.stream = "live", !.inputCtx = "open",
                               !.outputCtx = "open", !.session = "closing"]
        ELSE IF a = 2
        THEN [NoAttempt EXCEPT !.pc = "failed", !.stream = "live", !.inputCtx = "closed",
                               !.outputCtx = "open"]
        ELSE NoAttempt]
  /\ sent = <<>>
  /\ \E first \in 1..MaxFirstFrame, n \in 0..BufferCap :
       /\ audioBufferQueueRef = FramesFrom(first, n)
       /\ nextFrame = first + n
  /\ isOpen = FALSE
  /\ chatSession = NoSession
  /\ messages = <<>>
  /\ loading = FALSE
  /\ voiceState = "idle"
  /\ voiceError = NoError
  /\ mediaRecorderRef = NoRecorder
  /\ audioChunksRef = 0
  /\ streamRef = NoStream
  /\ projectsVer = 1
  /\ synthSupported = TRUE
  /\ turns = [t \in TurnIds |-> NoTurn]
  /\ lastOp = "none"

NextBuffer ==
  \E a \in AttemptIds, accepted \in BOOLEAN : BufferedAudioProcess(a, accepted)

SpecBuffer == InitBuffer /\ [][NextBuffer]_vars

\* ------------------------------------------------ playback of remote audio
Max(a, b) == IF a >= b THEN a ELSE b

\* (mutant) the cursor is set to the clock, whatever it was
AdvanceCursorToNow(cursor, now) == now

\* nextStartTimeRef.current = Math.max(nextStartTimeRef.current, ctx.currentTime)
AdvanceCursor(cursor, now) == Max(cursor, now)

\* the durations of the first n chunks of a sequence, added up
RECURSIVE SumDurations(_, _)
SumDurations(chunks, n) ==
  IF n = 0 THEN 0 ELSE SumDurations(chunks, n - 1) + chunks[n].duration

\* The second half of the handlers of `chunks`, run one after the other in
\* the order they were suspended: source.start(cursor); cursor += duration.
\* (at: the clock when start() was called; cut: an interruption ran between
\* the two halves of the handler; waited: the handler waited for ctx.resume();
\* late: an interruption arrived while it waited)
StartSources(chunks, cursor, now, cut, waited) ==
  [i \in 1..Len(chunks) |->
     [idx |-> chunks[i].idx, start |-> cursor + SumDurations(chunks, i - 1),
      duration |-> chunks[i].duration, at |-> now, stopped |-> FALSE, cut |-> cut,
      waited |-> waited, late |-> chunks[i].late]]

\* the handlers waiting for ctx.resume() when an interruption arrives
MarkLate(chunks) == [i \in 1..Len(chunks) |-> [chunks[i] EXCEPT !.late = TRUE]]

\* a session that delivers messages
Delivering == \E a \in AttemptIds : attempts[a].session \in {"open", "closing"}

\* onInterrupted leaves the Set of sources as it is
InterruptedSet(active) == active

\* A server message with an audio chunk of duration d arrives; interrupted:
\* the same message also carries the interrupted flag, which onmessage
\* handles after it has called onAudioChunk and before that handler's
\* continuation runs.  With the context suspended the handler waits for
\* ctx.resume(); otherwise it runs to its end (the await of decodeAudioData
\* only yields to the rest of onmessage).
ChunkArrives(d, interrupted) ==
  /\ Delivering
  /\ arrived < MaxChunksIn
  /\ arrived' = arrived + 1
  /\ IF outputAudioContextRef = NoContext
     THEN /\ UNCHANGED waiting
          /\ IF interrupted
             THEN /\ scheduled' = StopSources(scheduled, activeSourcesRef)
                  /\ nextStartTimeRef' = 0
                  /\ activeSourcesRef' = InterruptedSet(activeSourcesRef)
             ELSE UNCHANGED <<scheduled, nextStartTimeRef, activeSourcesRef>>
     ELSE IF outputState = "suspended"
     THEN /\ waiting' = IF interrupted
                         THEN MarkLate(Append(waiting, [idx |-> arrived + 1, duration |-> d,
                                                        late |-> FALSE]))
                         ELSE Append(waiting, [idx |-> arrived + 1, duration |-> d,
                                               late |-> FALSE])
          /\ IF interrupted
             THEN /\ scheduled' = StopSources(scheduled, activeSourcesRef)
                  /\ nextStartTimeRef' = 0
                  /\ activeSourcesRef' = InterruptedSet(activeSourcesRef)
             ELSE UNCHANGED <<scheduled, nextStartTimeRef, activeSourcesRef>>
     ELSE LET stoppedNow == IF interrupted
                            THEN StopSources(scheduled, activeSourcesRef)
                            ELSE scheduled
              kept == IF interrupted THEN InterruptedSet(activeSourcesRef)
                      ELSE activeSourcesRef
              cursor == IF interrupted THEN 0
                        ELSE AdvanceCursor(nextStartTimeRef, outputClock)
              new == StartSources(<<[idx |-> arrived + 1, duration |-> d,
                                     late |-> FALSE]>>,
                                  cursor, outputClock, interrupted, FALSE)
          IN /\ scheduled' = stoppedNow \o new
             /\ nextStartTimeRef' = cursor + d
             /\ activeSourcesRef' = kept \cup {Len(scheduled) + 1}
             /\ UNCHANGED waiting
  /\ UNCHANGED <<outputClock, outputState>>
  /\ UNCHANGED <<isLiveMode, isLiveActive, showVoiceRecovery, audioContextRef,
                 outputAudioContextRef, liveSessionRef, sessionReadyRef,
                 audioBufferQueueRef, attempts, nextFrame, sent>>
  /\ UNCHANGED <<permVars, codecVars, pcmVars, toolVars>>
  /\ UNCHANGED tbVars

\* a server message with the interrupted flag alone: onInterrupted
Interrupted ==
  /\ Delivering
  /\ scheduled' = StopSources(scheduled, activeSourcesRef)
  /\ nextStartTimeRef' = 0
  /\ activeSourcesRef' = InterruptedSet(activeSourcesRef)
  /\ waiting' = MarkLate(waiting)
  /\ UNCHANGED <<outputClock, outputState, arrived>>
  /\ UNCHANGED <<isLiveMode, isLiveActive, showVoiceRecovery, audioContextRef,
                 outputAudioContextRef, liveSessionRef, sessionReadyRef,
                 audioBufferQueueRef, attempts, nextFrame, sent>>
  /\ UNCHANGED <<permVars, codecVars, pcmVars, toolVars>>
  /\ UNCHANGED tbVars

\* ctx.resume() resolves for the suspended handlers: their continuations run
\* in the order they were suspended, each up to its await of decodeAudioData
\* (the cursor is advanced to the clock), then each to its end
OutputResumes ==
  /\ outputState = "suspended"
  /\ waiting # <<>>
  /\ outputState' = "running"
  /\ LET cursor == AdvanceCursor(nextStartTimeRef, outputClock)
         new == StartSources(waiting, cursor, outputClock, FALSE, TRUE)
     IN /\ scheduled' = scheduled \o new
        /\ nextStartTimeRef' = cursor + SumDurations(waiting, Len(waiting))
        /\ activeSourcesRef' =
             activeSourcesRef \cup ((Len(scheduled) + 1)..(Len(scheduled) + Len(waiting)))
  /\ waiting' = <<>>
  /\ UNCHANGED <<outputClock, arrived>>
  /\ UNCHANGED <<isLiveMode, isLiveActive, showVoiceRecovery, audioContextRef,
                 outputAudioContextRef, liveSessionRef, sessionReadyRef,
                 audioBufferQueueRef, attempts, nextFrame, sent>>
  /\ UNCHANGED <<permVars, codecVars, pcmVars, toolVars>>
  /\ UNCHANGED tbVars

\* the browser suspends the output context (the page is interrupted)
OutputSuspends ==
  /\ outputState = "running"
  /\ outputState' = "suspended"
  /\ UNCHANGED <<nextStartTimeRef, activeSourcesRef, outputClock, scheduled,
                 waiting, arrived>>
  /\ UNCHANGED <<isLiveMode, isLiveActive, showVoiceRecovery, audioContextRef,
                 outputAudioContextRef, liveSessionRef, sessionReadyRef,
                 audioBufferQueueRef, attempts, nextFrame, sent>>
  /\ UNCHANGED <<permVars, codecVars, pcmVars, toolVars>>
  /\ UNCHANGED tbVars

\* the output clock advances while the context is running
ClockTicks ==
  /\ outputState = "running"
  /\ outputClock < MaxClock
  /\ outputClock' = outputClock + 1
  /\ UNCHANGED <<nextStartTimeRef, activeSourcesRef, outputState, scheduled,
                 waiting, arrived>>
  /\ UNCHANGED <<isLiveMode, isLiveActive, showVoiceRecovery, audioContextRef,
                 outputAudioContextRef, liveSessionRef, sessionReadyRef,
                 audioBufferQueueRef, attempts, nextFrame, sent>>
  /\ UNCHANGED <<permVars, codecVars, pcmVars, toolVars>>
  /\ UNCHANGED tbVars

\* a session that is running: one start has gone through
InitPlayback ==
  /\ InitPermVars
  /\ InitToolVars
  /\ InitCodecVars
  /\ InitPcmVars
  /\ nextStartTimeRef = 0
  /\ activeSourcesRef = {}
  /\ outputClock = 0
  /\ outputState = "running"
  /\ scheduled = <<>>
  /\ waiting = <<>>
  /\ arrived = 0
  /\ isLiveMode = TRUE
  /\ isLiveActive = TRUE
  /\ showVoiceRecovery = FALSE
  /\ audioContextRef = 1
  /\ outputAudioContextRef = 1
  /\ liveSessionRef = 1
  /\ sessionReadyRef = TRUE
  /\ audioBufferQueueRef = <<>>
  /\ attempts = [a \in AttemptIds |->
        IF a = 1
        THEN [NoAttempt EXCEPT !.pc = "running", !.stream = "live", !.inputCtx = "open",
                               !.outputCtx = "open", !.session = "open"]
        ELSE NoAttempt]
  /\ nextFrame = 1
  /\ sent = <<>>
  /\ isOpen = TRUE
  /\ chatSession = NoSession
  /\ messages = <<>>
  /\ loading = FALSE
  /\ voiceState = "idle"
  /\ voiceError = NoError
  /\ mediaRecorderRef = NoRecorder
  /\ audioChunksRef = 0
  /\ streamRef = NoStream
  /\ projectsVer = 1
  /\ synthSupported = TRUE
  /\ turns = [t \in TurnIds |-> NoTurn]
  /\ lastOp = "none"

NextPlayback ==
  \/ \E d \in 1..MaxDuration, interrupted \in BOOLEAN : ChunkArrives(d, interrupted)
  \/ Interrupted
  \/ OutputResumes
  \/ OutputSuspends
  \/ ClockTicks
  \/ \E a \in AttemptIds : LiveSessionClosed(a)

SpecPlayback == InitPlayback /\ [][NextPlayback]_vars

\* a running session that is stopped and started again while audio arrives
NextRestart ==
  \/ \E d \in 1..MaxDuration, interrupted \in BOOLEAN : ChunkArrives(d, interrupted)
  \/ Interrupted
  \/ ClockTicks
  \/ LiveVoiceButton
  \/ \E a \in AttemptIds : LiveMicGranted(a)
  \/ \E a \in AttemptIds : InputResumed(a)
  \/ \E a \in AttemptIds : OutputResumed(a)
  \/ \E a \in AttemptIds : LiveConnected(a)

SpecRestart == InitPlayback /\ [][NextRestart]_vars

\* ------------------------------------------------- microphone permission
PermRest == UNCHANGED <<tbVars, sessionVars, playOnly, scheduled, codecVars, pcmVars, toolVars>>

\* err?.name === 'NotAllowedError' ? 'blocked' : 'error'
FailedState(name) == IF name = "NotAllowedError" THEN "blocked" ELSE "error"

\* requestPermission of the hardened hook is called: a call made while
\* another one is in flight returns false at once
RequestPermission(c) ==
  /\ requests[c].pc = "free"
  /\ \A b \in RequestIds : b < c => requests[b].pc # "free"
  /\ IF requestingRef
     THEN /\ requests' = [requests EXCEPT ![c].pc = "done", ![c].result = "false"]
          /\ UNCHANGED requestingRef
     ELSE /\ requestingRef' = TRUE
          /\ requests' = [requests EXCEPT ![c].pc = "first", ![c].tries = 1]
  /\ UNCHANGED <<state, lastError, visibilityRecoveredRef, checking, checksStarted,
                 visible, hookState, hookLastError, hookRequests>>
  /\ PermRest

\* the first getUserMedia resolves
FirstGranted(c) ==
  /\ requests[c].pc = "first"
  /\ state' = "granted"
  /\ requestingRef' = FALSE
  /\ requests' = [requests EXCEPT ![c].pc = "done", ![c].result = "true"]
  /\ UNCHANGED <<lastError, visibilityRecoveredRef, checking, checksStarted,
                 visible, hookState, hookLastError, hookRequests>>
  /\ PermRest

\* the first getUserMedia rejects with e: the retry is made only while the tab
\* has never regained visibility
FirstFails(c, e) ==
  /\ requests[c].pc = "first"
  /\ IF ~visibilityRecoveredRef
     THEN /\ requests' = [requests EXCEPT ![c].pc = "delay", ![c].err = e,
                                           ![c].lastErr = e]
          /\ UNCHANGED <<state, lastError, requestingRef>>
     ELSE /\ state' = FailedState(e)
          /\ lastError' = IF e = "NotAllowedError" THEN lastError ELSE e
          /\ requestingRef' = FALSE
          /\ requests' = [requests EXCEPT ![c].pc = "done", ![c].err = e,
                                           ![c].lastErr = e, ![c].result = "false"]
  /\ UNCHANGED <<visibilityRecoveredRef, checking, checksStarted, visible,
                 hookState, hookLastError, hookRequests>>
  /\ PermRest

\* the 500 ms are over: getUserMedia is called again
DelayElapsed(c) ==
  /\ requests[c].pc = "delay"
  /\ requests' = [requests EXCEPT ![c].pc = "retry", ![c].tries = 2]
  /\ UNCHANGED <<state, lastError, visibilityRecoveredRef, requestingRef, checking,
                 checksStarted, visible, hookState, hookLastError, hookRequests>>
  /\ PermRest

\* the second getUserMedia resolves
RetryGranted(c) ==
  /\ requests[c].pc = "retry"
  /\ state' = "granted"
  /\ requestingRef' = FALSE
  /\ requests' = [requests EXCEPT ![c].pc = "done", ![c].result = "true"]
  /\ UNCHANGED <<lastError, visibilityRecoveredRef, checking, checksStarted,
                 visible, hookState, hookLastError, hookRequests>>
  /\ PermRest

\* (mutant) the failure path returns without clearing the in-flight flag
RetryFailsKeepsFlag(c, e) ==
  /\ requests[c].pc = "retry"
  /\ state' = FailedState(requests[c].err)
  /\ lastError' = IF requests[c].err = "NotAllowedError" THEN lastError
                  ELSE requests[c].err
  /\ requests' = [requests EXCEPT ![c].pc = "done", ![c].lastErr = e,
                                   ![c].result = "false"]
  /\ UNCHANGED <<requestingRef, visibilityRecoveredRef, checking, checksStarted,
                 visible, hookState, hookLastError, hookRequests>>
  /\ PermRest

\* the second getUserMedia rejects with e: the inner catch drops e and the
\* first error decides
RetryFails(c, e) ==
  /\ requests[c].pc = "retry"
  /\ state' = FailedState(requests[c].err)
  /\ lastError' = IF requests[c].err = "NotAllowedError" THEN lastError
                  ELSE requests[c].err
  /\ requestingRef' = FALSE
  /\ requests' = [requests EXCEPT ![c].pc = "done", ![c].lastErr = e,
                                   ![c].result = "false"]
  /\ UNCHANGED <<visibilityRecoveredRef, checking, checksStarted, visible,
                 hookState, hookLastError, hookRequests>>
  /\ PermRest

\* checkExistingPermission: enumerateDevices is called, nothing else
checkExistingPermission ==
  /\ checking' = checking + 1
  /\ checksStarted' = checksStarted + 1

\* (mutant) the handler re-checks in any state but 'blocked'
handleVisibilityUnlessBlocked ==
  /\ visible' = ~visible
  /\ IF visible'
     THEN /\ visibilityRecoveredRef' = TRUE
          /\ IF state # "blocked" /\ checksStarted < MaxChecks
             THEN checkExistingPermission
             ELSE UNCHANGED <<checking, checksStarted>>
     ELSE UNCHANGED <<visibilityRecoveredRef, checking, checksStarted>>

\* visibilitychange: the tab is hidden or shown again
handleVisibility ==
  /\ visible' = ~visible
  /\ IF visible'
     THEN /\ visibilityRecoveredRef' = TRUE
          /\ IF state = "blocked"
             THEN checkExistingPermission
             ELSE UNCHANGED <<checking, checksStarted>>
     ELSE UNCHANGED <<visibilityRecoveredRef, checking, checksStarted>>

VisibilityChange ==
  /\ (~visible /\ state = "blocked") => checksStarted < MaxChecks
  /\ handleVisibility
  /\ UNCHANGED <<state, lastError, requestingRef, requests, hookState,
                 hookLastError, hookRequests>>
  /\ PermRest

\* enumerateDevices settles: with a labelled audio input, with none, or by
\* rejecting
CheckSettles(how) ==
  /\ checking > 0
  /\ checking' = checking - 1
  /\ CASE how = "labelled" -> state' = "granted" /\ UNCHANGED lastError
       [] how = "none" -> UNCHANGED <<state, lastError>>
       [] how = "fails" -> state' = "error" /\ lastError' = "EnumerateError"
  /\ UNCHANGED <<visibilityRecoveredRef, requestingRef, requests, checksStarted,
                 visible, hookState, hookLastError, hookRequests>>
  /\ PermRest

\* requestPermission of src/hooks/useMicrophonePermission.ts is called
HookRequestPermission(c) ==
  /\ hookRequests[c].pc = "free"
  /\ \A b \in HookRequestIds : b < c => hookRequests[b].pc # "free"
  /\ hookRequests' = [hookRequests EXCEPT ![c].pc = "first", ![c].tries = 1]
  /\ UNCHANGED <<state, lastError, visibilityRecoveredRef, requestingRef, requests,
                 checking, checksStarted, visible, hookState, hookLastError>>
  /\ PermRest

HookGranted(c) ==
  /\ hookRequests[c].pc \in {"first", "retry"}
  /\ hookState' = "granted"
  /\ hookRequests' = [hookRequests EXCEPT ![c].pc = "done", ![c].result = "true"]
  /\ UNCHANGED <<state, lastError, visibilityRecoveredRef, requestingRef, requests,
                 checking, checksStarted, visible, hookLastError>>
  /\ PermRest

HookFirstFails(c, e) ==
  /\ hookRequests[c].pc = "first"
  /\ hookRequests' = [hookRequests EXCEPT ![c].pc = "delay", ![c].err = e,
                                           ![c].lastErr = e]
  /\ UNCHANGED <<state, lastError, visibilityRecoveredRef, requestingRef, requests,
                 checking, checksStarted, visible, hookState, hookLastError>>
  /\ PermRest

HookDelayElapsed(c) ==
  /\ hookRequests[c].pc = "delay"
  /\ hookRequests' = [hookRequests EXCEPT ![c].pc = "retry", ![c].tries = 2]
  /\ UNCHANGED <<state, lastError, visibilityRecoveredRef, requestingRef, requests,
                 checking, checksStarted, visible, hookState, hookLastError>>
  /\ PermRest

\* the retry rejects with e, and e decides
HookRetryFails(c, e) ==
  /\ hookRequests[c].pc = "retry"
  /\ hookLastError' = e
  /\ hookState' = FailedState(e)
  /\ hookRequests' = [hookRequests EXCEPT ![c].pc = "done", ![c].lastErr = e,
                                           ![c].result = "false"]
  /\ UNCHANGED <<state, lastError, visibilityRecoveredRef, requestingRef, requests,
                 checking, checksStarted, visible>>
  /\ PermRest

NextPermission ==
  \/ \E c \in RequestIds : RequestPermission(c)
  \/ \E c \in RequestIds : FirstGranted(c)
  \/ \E c \in RequestIds, e \in MediaErrors : FirstFails(c, e)
  \/ \E c \in RequestIds : DelayElapsed(c)
  \/ \E c \in RequestIds : RetryGranted(c)
  \/ \E c \in RequestIds, e \in MediaErrors : RetryFails(c, e)
  \/ VisibilityChange
  \/ \E how \in {"labelled", "none", "fails"} : CheckSettles(how)

SpecPermission == InitLive /\ [][NextPermission]_vars

\* the hook of src/hooks/useMicrophonePermission.ts
NextHook ==
  \/ \E c \in HookRequestIds : HookRequestPermission(c)
  \/ \E c \in HookRequestIds : HookGranted(c)
  \/ \E c \in HookRequestIds, e \in MediaErrors : HookFirstFails(c, e)
  \/ \E c \in HookRequestIds : HookDelayElapsed(c)
  \/ \E c \in HookRequestIds, e \in MediaErrors : HookRetryFails(c, e)

SpecHook == InitLive /\ [][NextHook]_vars

\* -------------------------------------------------------- audio utilities
\* the byte values the inputs are made of
ByteSamples == {0, 1, 65, 128, 255}

\* the base64 alphabet; character i stands for the six bits i - 1
Alphabet == <<
  "A", "B", "C", "D", "E", "F", "G", "H", "I", "J", "K", "L", "M", "N", "O", "P",
  "Q", "R", "S", "T", "U", "V", "W", "X", "Y", "Z", "a", "b", "c", "d", "e", "f",
  "g", "h", "i", "j", "k", "l", "m", "n", "o", "p", "q", "r", "s", "t", "u", "v",
  "w", "x", "y", "z", "0", "1", "2", "3", "4", "5", "6", "7", "8", "9", "+", "/" >>

Sextet(ch) == (CHOOSE i \in 1..64 : Alphabet[i] = ch) - 1

InAlphabet(ch) == \E i \in 1..64 : Alphabet[i] = ch

\* what btoa and atob produce when they throw
BtoaThrows == <<"InvalidCharacterError">>
AtobThrows == <<-1>>

\* String.fromCharCode(n): the UTF-16 code unit n
fromCharCode(n) == n % 65536

\* btoa of a string given as its code units: three bytes become four
\* characters, and a last group of one or two bytes is padded with '='
RECURSIVE btoaGroups(_)
btoaGroups(binary) ==
  IF Len(binary) = 0 THEN <<>>
  ELSE IF Len(binary) = 1
  THEN LET n == binary[1] * 65536
       IN <<Alphabet[(n \div 262144) + 1], Alphabet[((n \div 4096) % 64) + 1], "=", "=">>
  ELSE IF Len(binary) = 2
  THEN LET n == binary[1] * 65536 + binary[2] * 256
       IN <<Alphabet[(n \div 262144) + 1], Alphabet[((n \div 4096) % 64) + 1],
            Alphabet[((n \div 64) % 64) + 1], "=">>
  ELSE LET n == binary[1] * 65536 + binary[2] * 256 + binary[3]
       IN <<Alphabet[(n \div 262144) + 1], Alphabet[((n \div 4096) % 64) + 1],
            Alphabet[((n \div 64) % 64) + 1], Alphabet[(n % 64) + 1]>>
          \o btoaGroups(SubSeq(binary, 4, Len(binary)))

btoa(binary) ==
  IF \E i \in 1..Len(binary) : binary[i] > 255 THEN BtoaThrows
  ELSE btoaGroups(binary)

\* the characters of a base64 string without its padding: with a length that
\* is a multiple of four, one or two '=' at the end are removed
StripPadding(str) ==
  IF Len(str) > 0 /\ Len(str) % 4 = 0
  THEN IF str[Len(str)] = "=" /\ str[Len(str) - 1] = "="
       THEN SubSeq(str, 1, Len(str) - 2)
       ELSE IF str[Len(str)] = "=" THEN SubSeq(str, 1, Len(str) - 1)
       ELSE str
  ELSE str

\* four characters become three bytes; of a last group of two or three
\* characters the bits that do not fill a byte are dropped
RECURSIVE atobGroups(_)
atobGroups(str) ==
  IF Len(str) = 0 THEN <<>>
  ELSE IF Len(str) = 2
  THEN LET n == Sextet(str[1]) * 64 + Sextet(str[2])
       IN <<n \div 16>>
  ELSE IF Len(str) = 3
  THEN LET n == (Sextet(str[1]) * 4096 + Sextet(str[2]) * 64 + Sextet(str[3])) \div 4
       IN <<n \div 256, n % 256>>
  ELSE LET n == Sextet(str[1]) * 262144 + Sextet(str[2]) * 4096
                  + Sextet(str[3]) * 64 + Sextet(str[4])
       IN <<n \div 65536, (n \div 256) % 256, n % 256>>
          \o atobGroups(SubSeq(str, 5, Len(str)))

\* atob: the code units of the decoded string
atob(str) ==
  LET data == StripPadding(str)
  IN IF Len(data) % 4 = 1 \/ \E i \in 1..Len(data) : ~InAlphabet(data[i])
     THEN AtobThrows
     ELSE atobGroups(data)

\* (mutant) the characters of the binary string are taken as 7-bit
decodeBase64SevenBit(str) ==
  LET binaryString == atob(str)
  IN IF binaryString = AtobThrows THEN AtobThrows
     ELSE [i \in 1..Len(binaryString) |-> binaryString[i] % 128]

\* for (i < len) binary += String.fromCharCode(bytes[i]); return btoa(binary)
encode(b) == btoa([i \in 1..Len(b) |-> fromCharCode(b[i])])

\* bytes[i] = binaryString.charCodeAt(i), stored in a Uint8Array
decodeBase64(str) ==
  LET binaryString == atob(str)
  IN IF binaryString = AtobThrows THEN AtobThrows
     ELSE [i \in 1..Len(binaryString) |-> binaryString[i] % 256]

CodecRest == UNCHANGED <<tbVars, sessionVars, playOnly, scheduled, permVars, pcmVars, toolVars>>

CallEncode ==
  /\ codecPc = "input"
  /\ base64' = encode(bytes)
  /\ codecPc' = "encoded"
  /\ UNCHANGED <<bytes, decoded>>
  /\ CodecRest

CallDecodeBase64 ==
  /\ codecPc = "encoded"
  /\ decoded' = decodeBase64(base64)
  /\ codecPc' = "decoded"
  /\ UNCHANGED <<bytes, base64>>
  /\ CodecRest

\* any byte sequence of up to MaxBytes sample bytes is about to be encoded
InitCodec ==
  /\ bytes \in SeqsUpTo(ByteSamples, MaxBytes)
  /\ base64 = <<>>
  /\ decoded = <<>>
  /\ codecPc = "input"
  /\ InitPermVars
  /\ InitToolVars
  /\ InitPcmVars
  /\ InitPlayOnly
  /\ isLiveMode = FALSE
  /\ isLiveActive = FALSE
  /\ showVoiceRecovery = FALSE
  /\ audioContextRef = NoContext
  /\ outputAudioContextRef = NoContext
  /\ liveSessionRef = NoLiveSession
  /\ sessionReadyRef = FALSE
  /\ audioBufferQueueRef = <<>>
  /\ attempts = [a \in AttemptIds |-> NoAttempt]
  /\ nextFrame = 1
  /\ sent = <<>>
  /\ isOpen = FALSE
  /\ chatSession = NoSession
  /\ messages = <<>>
  /\ loading = FALSE
  /\ voiceState = "idle"
  /\ voiceError = NoError
  /\ mediaRecorderRef = NoRecorder
  /\ audioChunksRef = 0
  /\ streamRef = NoStream
  /\ projectsVer = 1
  /\ synthSupported = TRUE
  /\ turns = [t \in TurnIds |-> NoTurn]
  /\ lastOp = "none"

NextCodec == CallEncode \/ CallDecodeBase64

SpecCodec == InitCodec /\ [][NextCodec]_vars

\* ------------------------------------------------ float to 16-bit samples
SampleNumerators == (0 - MaxSample)..MaxSample

\* the integer part of n / d (d > 0), rounded towards zero
Truncate(n, d) == IF n >= 0 THEN n \div d ELSE 0 - ((0 - n) \div d)

\* storing a number in an Int16Array: its integer part modulo 2^16, taken
\* as a signed 16-bit value
ToInt16(n, d) == ((Truncate(n, d) + 32768) % 65536) - 32768

\* Math.max(-1, Math.min(1, x)) for x = n / SampleUnit
Clamp(n) == IF n > SampleUnit THEN SampleUnit
            ELSE IF n < 0 - SampleUnit THEN 0 - SampleUnit ELSE n

\* s = clamp(x); int16[i] = s < 0 ? s * 32768 : s * 32767
FloatToInt16(n) ==
  LET sample == Clamp(n)
  IN IF sample < 0 THEN ToInt16(sample * 32768, SampleUnit)
     ELSE ToInt16(sample * 32767, SampleUnit)

\* part_000: int16[i] = inputData[i] * 32768
OlderFloatToInt16(n) == ToInt16(n * 32768, SampleUnit)

PcmRest == UNCHANGED <<tbVars, sessionVars, playOnly, scheduled, permVars, codecVars, toolVars>>

\* the conversion loop of processor.onaudioprocess (ProjectCard.tsx)
ConvertInput ==
  /\ int16 = NotConverted
  /\ int16' = [i \in 1..Len(inputData) |-> FloatToInt16(inputData[i])]
  /\ UNCHANGED <<inputData, olderInt16>>
  /\ PcmRest

\* the conversion loop of processor.onaudioprocess (part_000)
OlderConvertInput ==
  /\ olderInt16 = NotConverted
  /\ olderInt16' = [i \in 1..Len(inputData) |-> OlderFloatToInt16(inputData[i])]
  /\ UNCHANGED <<inputData, int16>>
  /\ PcmRest

\* any input buffer of up to MaxSamples samples is about to be converted
InitPcm ==
  /\ inputData \in SeqsUpTo(SampleNumerators, MaxSamples)
  /\ int16 = NotConverted
  /\ olderInt16 = NotConverted
  /\ InitCodecVars
  /\ InitPermVars
  /\ InitToolVars
  /\ InitPlayOnly
  /\ isLiveMode = FALSE
  /\ isLiveActive = FALSE
  /\ showVoiceRecovery = FALSE
  /\ audioContextRef = NoContext
  /\ outputAudioContextRef = NoContext
  /\ liveSessionRef = NoLiveSession
  /\ sessionReadyRef = FALSE
  /\ audioBufferQueueRef = <<>>
  /\ attempts = [a \in AttemptIds |-> NoAttempt]
  /\ nextFrame = 1
  /\ sent = <<>>
  /\ isOpen = FALSE
  /\ chatSession = NoSession
  /\ messages = <<>>
  /\ loading = FALSE
  /\ voiceState = "idle"
  /\ voiceError = NoError
  /\ mediaRecorderRef = NoRecorder
  /\ audioChunksRef = 0
  /\ streamRef = NoStream
  /\ projectsVer = 1
  /\ synthSupported = TRUE
  /\ turns = [t \in TurnIds |-> NoTurn]
  /\ lastOp = "none"

NextPcm == ConvertInput \/ OlderConvertInput

SpecPcm == InitPcm /\ [][NextPcm]_vars

\* ---------------------------------------------------------------------------
\* Tool calls of the streaming session: the toolCall branch of onmessage
\* (src/unnamed/part_002:151-172) with handleToolCall as callbacks.onToolCall
\* (src/components/ProjectCard.tsx:315-318)
\* ---------------------------------------------------------------------------

ToolRest == UNCHANGED <<tbVars, sessionVars, playOnly, scheduled, permVars, codecVars,
                        pcmVars>>

\* session.sendToolResponse({functionResponses: [{id, name, response: {result}}]})
sendToolResponse(out, fc, result) ==
  Append(out, [id |-> fc.id, name |-> fc.name, result |-> result])

\* the for loop over message.toolCall.functionCalls from call idx on, up to the
\* next wait on the network: handleToolCall answers an unknown name at once
\* (that await and the one on the settled sessionPromise are microtasks), and
\* waits in searchProjectsInSheet for the declared tool
RECURSIVE toolCallLoop(_, _, _)
toolCallLoop(calls, idx, out) ==
  IF idx > Len(calls)
  THEN [pc |-> "done", idx |-> idx, out |-> out]
  ELSE IF calls[idx].name = "searchProjectHistory"
  THEN [pc |-> "search", idx |-> idx, out |-> out]
  ELSE toolCallLoop(calls, idx + 1,
                    sendToolResponse(out, calls[idx], "Unknown tool"))

\* the session delivers a message with a toolCall: onmessage runs up to its
\* first wait; nothing holds the message back while an earlier invocation of
\* onmessage is suspended
onmessage(names) ==
  /\ liveSessionRef # NoLiveSession
  /\ \E h \in MessageIds :
       /\ handlers[h].pc = "none"
       /\ \A g \in MessageIds : g < h => handlers[g].pc # "none"
       /\ LET calls == [i \in 1..Len(names) |->
                          [id |-> Len(functionCalls) + i, name |-> names[i]]]
              run == toolCallLoop(calls, 1, functionResponses)
          IN /\ functionCalls' = functionCalls \o calls
             /\ handlers' = [handlers EXCEPT
                               ![h] = [pc |-> run.pc, calls |-> calls, idx |-> run.idx]]
             /\ functionResponses' = run.out
  /\ ToolRest

\* searchProjectsInSheet settles for the invocation of handler h: with the
\* matching rows, or with [] from its catch when fetchProjects fails; the
\* handler sends the response and goes on with the loop
SearchReturns(h, outcome) ==
  /\ handlers[h].pc = "search"
  /\ LET fc == handlers[h].calls[handlers[h].idx]
         result == IF outcome = "rows" THEN "rows" ELSE "[]"
         run == toolCallLoop(handlers[h].calls, handlers[h].idx + 1,
                             sendToolResponse(functionResponses, fc, result))
     IN /\ handlers' = [handlers EXCEPT ![h].pc = run.pc, ![h].idx = run.idx]
        /\ functionResponses' = run.out
  /\ UNCHANGED functionCalls
  /\ ToolRest

NextTools ==
  \/ \E names \in SeqsUpTo(ToolNames, MaxFunctionCalls) \ {<<>>} : onmessage(names)
  \/ \E h \in MessageIds, outcome \in {"rows", "fails"} : SearchReturns(h, outcome)

SpecTools == InitPlayback /\ [][NextTools]_vars

\* ================================================================ claims
IsPrefix(a, b) == Len(a) <= Len(b) /\ SubSeq(b, 1, Len(a)) = a

Pending(t) == turns[t].pc \notin {"free", "done", "returned"}
Quiescent == \A t \in TurnIds : ~Pending(t)

\* the edges of the turn-based state machine
AllowedEdges ==
  {<<"idle", "recording">>, <<"recording", "processing">>,
   <<"processing", "speaking">>, <<"processing", "idle">>, <<"speaking", "idle">>}

\* C1 as a whole: voiceState only changes along the allowed edges.
C1_VoiceStateEdges ==
  [][voiceState' # voiceState => <<voiceState, voiceState'>> \in AllowedEdges]_vars

\* C1 (the part it states "in particular"): 'speaking' is entered only from
\* 'processing', under every interleaving of presses, recorder stop events
\* (the recorder stopping by itself included) and completions.
\* The code violates it: recorder.onstop runs processRecordedAudio whatever
\* voiceState is, and only stopRecording sets 'processing'.
C1_SpeakingOnlyFromProcessing ==
  [][(voiceState' = "speaking" /\ voiceState # "speaking")
       => voiceState = "processing"]_vars

\* C2: a press of the voice control while voiceState is 'processing' has no
\* effect: no capture starts, nothing is stopped, no state changes.
C2_PressWhileProcessingIgnored ==
  [][(lastOp' = "handleVoiceButton" /\ voiceState = "processing")
       => UNCHANGED <<isOpen, chatSession, messages, loading, voiceState,
                      voiceError, mediaRecorderRef, audioChunksRef, streamRef,
                      projectsVer, synthSupported, turns>>]_vars

\* C2 witness: the control was pressed while the only turn was being processed.
C2_Witness ==
  /\ lastOp = "handleVoiceButton"
  /\ voiceState = "processing"
  /\ turns[1].pc \in {"transcribe", "send1"}
  /\ \A t \in TurnIds \ {1} : turns[t].pc = "free"

\* C3: for one chat session at most one send (with its tool follow-up) is in
\* flight at any time.  The code violates it: handleSend only tests `loading`
\* and a voice turn tests nothing.
C3_OneSendInFlight ==
  \A sess \in 1..MaxProjects : Cardinality(InFlight(sess)) <= 1

C5_FailedStartLeavesIdle ==
  [][\A a \in AttemptIds :
       (/\ attempts[a].pc # "failed"
        /\ attempts'[a].pc = "failed"
        /\ \A b \in AttemptIds \ {a} : attempts[b].pc \in {"free", "failed"})
       => (~isLiveActive' /\ ~isLiveMode')]_vars

\* C6: an empty transcription ends the turn at once: voiceState 'idle', the
\* retry message set, no turn appended, nothing sent to the conversational
\* model (only a non-empty transcript ever starts a chat exchange).
C6_EmptyTranscriptToIdle ==
  [][\A t \in TurnIds :
       turns[t].pc = "transcribe" =>
         /\ turns'[t].pc \in {"transcribe", "done", "send1"}
         /\ turns'[t].pc = "done" =>
              /\ voiceState' = "idle"
              /\ voiceError' = TranscribeError
              /\ messages' = messages
              /\ turns[t].modelCalls = 0
              /\ \A sess \in 1..MaxProjects : InFlight(sess)' = InFlight(sess)
         /\ turns'[t].pc = "send1" =>
              /\ turns'[t].message # ""
              /\ turns'[t].modelCalls = 1]_vars

\* C6 witness: the turn ended on an empty transcript while 'processing' ...
C6_Witness ==
  /\ voiceError = TranscribeError
  /\ voiceState = "idle"
  /\ turns[1].pc = "done"
  /\ messages = <<Greeting>>
  /\ Quiescent

\* C7: a voice turn with a transcript and a response appends exactly the user
\* turn (the transcript) and then the assistant turn (the response), in the
\* step that sets 'speaking', and the utterance's text is the assistant
\* turn's text; 'speaking' is never entered without them.
C7_TurnsAppendedThenSpoken ==
  [][/\ \A t \in TurnIds :
          (turns[t].kind = "voice" /\ turns[t].pc \in {"send1", "tool", "send2"}
             /\ turns'[t].pc \in {"speak", "done"})
          => /\ Len(messages') = Len(messages) + 2
             /\ IsPrefix(messages, messages')
             /\ messages'[Len(messages) + 1] = [role |-> "user", text |-> turns[t].message]
             /\ messages'[Len(messages) + 2].role = "model"
             /\ turns'[t].pc = "speak" =>
                  /\ voiceState' = "speaking"
                  /\ turns'[t].utt = "active"
                  /\ turns'[t].response = messages'[Len(messages) + 2].text
     /\ (voiceState' = "speaking" /\ voiceState # "speaking") =>
          \E t \in TurnIds :
            /\ turns[t].pc \in {"send1", "tool", "send2"} /\ turns'[t].pc = "speak"
            /\ Len(messages') = Len(messages) + 2]_vars

\* C7 witness: the response just appended is being spoken.
C7_Witness ==
  /\ voiceState = "speaking"
  /\ Len(messages) >= 3
  /\ \E t \in TurnIds :
       /\ turns[t].pc = "speak" /\ turns[t].utt = "active"
       /\ messages[Len(messages)] = [role |-> "model", text |-> turns[t].response]
       /\ messages[Len(messages) - 1].role = "user"

\* C8 (its first half): in every step the previous message list is a prefix
\* of the new one.  The code violates it: the effect on [projects] replaces
\* the list (and the session) whenever the projects prop changes.
C8_HistoryAppendOnly == [][IsPrefix(messages, messages')]_vars

\* C8 (its second half): the chat session handle is never replaced.
C8_SessionNotReplaced ==
  [][chatSession # NoSession => chatSession' = chatSession]_vars

\* C9: the tool resolver is invoked once per call, in the order returned and
\* one at a time (the results so far are those of the calls before the one
\* in progress); the one follow-up carries all results in order.
C9_ToolCallsInOrder ==
  \A t \in TurnIds :
    /\ turns[t].pc = "tool" =>
         /\ turns[t].idx \in 1..Len(turns[t].calls)
         /\ Len(turns[t].results) = turns[t].idx - 1
         /\ \A i \in 1..Len(turns[t].results) :
              turns[t].results[i] =
                [name |-> turns[t].calls[i], result |-> handleToolCall(turns[t].calls[i])]
         /\ turns[t].modelCalls = 1
    /\ turns[t].pc = "send2" =>
         /\ Len(turns[t].followUp) = Len(turns[t].calls)
         /\ \A i \in 1..Len(turns[t].calls) :
              turns[t].followUp[i] =
                [name |-> turns[t].calls[i], result |-> handleToolCall(turns[t].calls[i])]
         /\ turns[t].modelCalls = 2

\* C9 witness: a follow-up carrying the results of two different calls.
C9_Witness ==
  \E t \in TurnIds :
    /\ turns[t].pc = "send2"
    /\ Len(turns[t].followUp) = 2
    /\ turns[t].followUp[1].name # turns[t].followUp[2].name

\* C10 (no tool calls): a call whose first response carries no tool calls
\* makes exactly one remote call and returns that response's text, the
\* present-but-empty list included.  The code violates it: an empty
\* functionCalls array is truthy, so the follow-up is sent.
C10_NoToolCallsOneModelCall ==
  \A t \in TurnIds :
    (turns[t].pc = "returned" /\ turns[t].via \in {"first", "second"}
       /\ turns[t].carried = 0)
    => (turns[t].modelCalls = 1 /\ turns[t].via = "first")

\* C10 (tool calls): a call whose first response carries tool calls makes
\* exactly two remote calls and returns the second response's text, also
\* when no resolver was supplied.  The code makes one call without a resolver.
C10_ToolCallsTwoModelCalls ==
  \A t \in TurnIds :
    (turns[t].pc = "returned" /\ turns[t].via \in {"first", "second"}
       /\ turns[t].carried > 0)
    => (turns[t].modelCalls = 2 /\ turns[t].via = "second")

\* C10 (upper bound, which the code keeps): never more than two remote calls.
C10_AtMostTwoModelCalls == \A t \in TurnIds : turns[t].modelCalls <= 2

\* C11: sendChatMessage and sendVoiceMessage never reject: every call that
\* has settled has returned a non-empty text, whatever failed (first model
\* call, resolver, follow-up, transcription); with a null session the text
\* is 'AI Service not initialized.' and neither a remote call nor a
\* transcription was made.
C11_NeverRejectsNullIsFixedText ==
  \A t \in TurnIds :
    turns[t].kind \in {"direct", "directVoice"} =>
      /\ turns[t].pc # "rejected"
      /\ turns[t].pc = "returned" => turns[t].response # ""
      /\ (turns[t].chat = NoSession \/ turns[t].via = "null") =>
            /\ turns[t].pc = "returned"
            /\ turns[t].response = NotInitialized
            /\ turns[t].modelCalls = 0
            /\ turns[t].outcome = "none"

\* C11 witness: a voice call on a null session has returned, and a call whose
\* exchange failed has returned the error text.
C11_Witness ==
  \E t, u \in TurnIds :
    /\ turns[t].kind = "directVoice" /\ turns[t].via = "null"
    /\ turns[u].pc = "returned" /\ turns[u].via = "catch"
    /\ turns[u].response = ErrorText

\* C12: a tool call with an unknown name resolves to {error: 'Unknown tool'},
\* which is pushed like any other result: the exchange goes on with the next
\* call of the response, or with the follow-up message when it was the last.
C12_UnknownToolFedBack ==
  [][\A t \in TurnIds :
       (/\ turns[t].pc = "tool"
        /\ turns[t].calls[turns[t].idx] # "searchProjectHistory"
        /\ turns'[t] # turns[t])
       => LET fed == Append(turns[t].results,
                            [name |-> turns[t].calls[turns[t].idx],
                             result |-> "error: Unknown tool"])
          IN IF turns[t].idx < Len(turns[t].calls)
             THEN /\ turns'[t].pc = "tool"
                  /\ turns'[t].idx = turns[t].idx + 1
                  /\ turns'[t].results = fed
             ELSE /\ turns'[t].pc = "send2"
                  /\ turns'[t].followUp = fed]_vars

\* C12 witness: the follow-up carries the unknown-tool error and the result
\* of the call that came after it.
C12_Witness ==
  \E t \in TurnIds :
    /\ turns[t].pc = "send2"
    /\ Len(turns[t].followUp) = 2
    /\ turns[t].followUp[1].result = "error: Unknown tool"
    /\ turns[t].followUp[2].name = "searchProjectHistory"

\* C13: transcribeVoiceClip returns the empty string only when the remote
\* service yielded no usable text (an empty or blank text); a request that
\* failed is reported differently.  The code violates it: the catch of
\* transcribeVoiceClip returns "" for a failed request as well.
C13_EmptyOnlyForNoText ==
  \A t \in TurnIds :
    (/\ turns[t].kind = "directTranscribe"
     /\ turns[t].pc = "returned"
     /\ turns[t].response = "")
    => turns[t].outcome \in {"", " "}

\* C14: at most one utterance is speaking at any time, for every sequence
\* of speakText and stopSpeaking calls: speakText cancels the utterance in
\* flight before it submits its own.
C14_OneUtteranceSpeaking ==
  Cardinality({t \in TurnIds : turns[t].utt = "active"}) <= 1

\* C14 witness: a second speakText cancelled the first call's utterance,
\* which has not reported back yet, and its own utterance is speaking.
C14_Witness ==
  \E t, u \in TurnIds :
    /\ turns[t].kind = "directSpeak" /\ turns[t].pc = "speak"
    /\ turns[t].utt = "cancelled"
    /\ turns[u].kind = "directSpeak" /\ turns[u].utt = "active"

\* C15: a synthesis fault never blocks the voice session.  When the
\* utterance reports an error the session goes to 'idle' and no error is
\* set; when speech synthesis is unsupported the session never rests in
\* 'speaking': the turn that got its response ends in 'idle', no error set.
C15_SynthesisFaultToIdle ==
  /\ [][lastOp' = "utteranceError"
          => (voiceState' = "idle" /\ voiceError' = voiceError)]_vars
  /\ [](~synthSupported => voiceState # "speaking")
  /\ [][\A t \in TurnIds :
          (/\ ~synthSupported
           /\ turns[t].kind = "voice"
           /\ turns[t].pc \in {"send1", "send2", "tool"}
           /\ turns'[t].pc = "done")
          => (voiceState' = "idle" /\ voiceError' = voiceError)]_vars

\* C15 witness: the utterance of a session that was speaking has just
\* reported an error; the session is idle, the response is in the list and
\* no error is shown.
C15_Witness ==
  /\ lastOp = "utteranceError"
  /\ voiceState = "idle"
  /\ voiceError = NoError
  /\ Len(messages) >= 2
  /\ messages[Len(messages)].role = "model"

\* C16: session-close is idempotent: stopLiveMode on an already stopped
\* session touches no released resource, so close() is never called on an
\* audio context that is closed already.  The code violates it:
\* stopLiveMode closes whatever the refs point to, the refs are never
\* cleared, and the session's onclose callback runs stopLiveMode again.
C16_NoSecondClose == \A a \in AttemptIds : ~attempts[a].ctxReclosed

\* C17 (streaming design): every microphone track that was acquired is
\* released on stop, on error and on teardown: when the session is not
\* active and no start is under way, no stream acquired by startLiveMode is
\* still live.  The code violates it: neither stopLiveMode nor the catch of
\* startLiveMode stops the tracks of the stream.
C17_NoLiveTrackWhenIdle ==
  (/\ ~isLiveActive
   /\ \A a \in AttemptIds :
        attempts[a].pc \notin {"gum", "resumeIn", "resumeOut", "connect", "warmup"})
  => \A a \in AttemptIds : attempts[a].stream # "live"

\* C18 (streaming design): at most one voice session at a time: two
\* sessions never own the microphone or an output audio context
\* concurrently, because startLiveMode tears the previous session down
\* first.  The code violates it: startLiveMode releases nothing, and it can
\* be entered again while an earlier call is still awaiting.
C18_OneSessionOwnsDevices ==
  /\ Cardinality({a \in AttemptIds : attempts[a].stream = "live"}) <= 1
  /\ Cardinality({a \in AttemptIds : attempts[a].outputCtx = "open"}) <= 1

\* C19: for every sequence of frames pushed while the session is not ready
\* the buffer never holds more than 25 frames after a push; a push that
\* would exceed the cap drops exactly the oldest excess frames, the newest
\* frame is kept, and the kept frames stay in capture order.
C19_BufferCapDropsOldest ==
  /\ [](Len(audioBufferQueueRef) <= BufferCap)
  /\ [][(~sessionReadyRef /\ nextFrame' # nextFrame) =>
          LET all == Append(audioBufferQueueRef, nextFrame)
              excess == IF Len(all) > BufferCap THEN Len(all) - BufferCap ELSE 0
          IN /\ Len(audioBufferQueueRef') = Len(all) - excess
             /\ \A i \in 1..Len(audioBufferQueueRef') :
                  audioBufferQueueRef'[i] = all[i + excess]
             /\ audioBufferQueueRef'[Len(audioBufferQueueRef')] = nextFrame]_vars

\* C19 witness: the buffer is full and its oldest frame is one captured
\* after the run began: older frames were dropped.
C19_Witness ==
  /\ ~sessionReadyRef
  /\ Len(audioBufferQueueRef) = BufferCap
  /\ audioBufferQueueRef[1] > MaxFirstFrame
  /\ audioBufferQueueRef[BufferCap] = nextFrame - 1

\* C20 (readiness gate): no audio frame is sent to the remote session while
\* the ready flag is false, before the warm-up has elapsed as well as after
\* stopLiveMode has cleared the flag; a frame captured while the flag is
\* false is appended to the buffer and not sent.
C20_ReadinessGate ==
  /\ [][sent' # sent => sessionReadyRef']_vars
  /\ [][(~sessionReadyRef /\ nextFrame' # nextFrame) =>
          /\ sent' = sent
          /\ Len(audioBufferQueueRef') > 0
          /\ audioBufferQueueRef'[Len(audioBufferQueueRef')] = nextFrame]_vars

\* C20 witness: the session has a connection, the ready flag is false, and a
\* captured frame sits in the buffer without having been sent.
C20_Witness ==
  /\ ~sessionReadyRef
  /\ liveSessionRef # NoLiveSession
  /\ Len(audioBufferQueueRef) > 0
  /\ \A i \in 1..Len(sent) : sent[i] # audioBufferQueueRef[1]

\* C21: when the session rejects a frame during the flush, flushing stops
\* and the whole unflushed tail (the rejected frame and every frame queued
\* after it) is back in the buffer in original order: the frames sent by
\* the flush followed by the frames kept are the queued frames.  The code
\* violates it: only the rejected frame is pushed back.
C21_FailedFlushKeepsTail ==
  [][\A a \in AttemptIds :
       (attempts[a].pc = "warmup" /\ attempts'[a].pc # "warmup")
       => sent' \o audioBufferQueueRef' = sent \o audioBufferQueueRef]_vars

\* C22: frames reach the session in capture order, buffered ones first: a
\* newly captured frame is sent only when no earlier frame is still waiting
\* in the buffer.  The code violates it: a frame put back by a rejected
\* flush is never flushed again, and later frames are sent past it.
C22_BufferedBeforeLater ==
  [][(nextFrame' # nextFrame /\ sent' # sent) => audioBufferQueueRef = <<>>]_vars

\* C23: without an interruption the chunks are scheduled in arrival order,
\* gaplessly and without overlap: a chunk whose predecessor was not stopped
\* starts at the maximum of the clock (when it was scheduled) and the end of
\* its predecessor, start times do not decrease, and the cursor is the end of
\* the chunk scheduled last; handlers suspended together are no exception.
EndOf(i) == scheduled[i].start + scheduled[i].duration

Uninterrupted(i) ==
  /\ ~scheduled[i].cut
  /\ i > 1 => ~scheduled[i - 1].stopped

C23_GaplessInOrder ==
  /\ \A i, j \in 1..Len(scheduled) : i < j => scheduled[i].idx < scheduled[j].idx
  /\ \A i \in 1..Len(scheduled) :
       Uninterrupted(i) =>
         /\ scheduled[i].start =
              Max(scheduled[i].at, IF i = 1 THEN 0 ELSE EndOf(i - 1))
         /\ i > 1 => scheduled[i].start >= scheduled[i - 1].start
  /\ (scheduled # <<>> /\ ~scheduled[Len(scheduled)].stopped
        /\ ~scheduled[Len(scheduled)].cut)
       => nextStartTimeRef = EndOf(Len(scheduled))

\* two handlers that waited for the context together were scheduled back to
\* back behind a chunk that is still playing
C23_Witness ==
  \E i \in 1..Len(scheduled) :
    /\ i + 2 <= Len(scheduled)
    /\ ~scheduled[i].stopped /\ ~scheduled[i + 1].stopped /\ ~scheduled[i + 2].stopped
    /\ scheduled[i + 1].waited /\ scheduled[i + 2].waited
    /\ scheduled[i + 1].at = scheduled[i + 2].at
    /\ scheduled[i + 1].at > scheduled[i].at
    /\ scheduled[i + 1].start = EndOf(i)
    /\ scheduled[i + 2].start = EndOf(i + 1)

\* C24: while the session is up (only an interruption has stopped sources),
\* no stopped source is in the set of active sources, so that a later
\* interruption or stop acts only on sources scheduled since.
C24_NoStoppedSourceActive ==
  Delivering => \A i \in activeSourcesRef : ~scheduled[i].stopped

\* C25: a call of requestPermission that has returned has left the permission
\* state granted, blocked or error, and has made exactly two acquisition
\* attempts if the first one failed, and never more than two.
Settled == {"granted", "blocked", "error"}

C25_RetriesOnceOnFirstFailure ==
  /\ \A c \in RequestIds :
       requests[c].pc = "done" =>
         /\ requests[c].result \in {"true", "false"}
         /\ state \in Settled
         /\ requests[c].tries <= 2
         /\ requests[c].err # "null" => requests[c].tries = 2
  /\ \A c \in HookRequestIds :
       hookRequests[c].pc = "done" =>
         /\ hookRequests[c].result \in {"true", "false"}
         /\ hookState \in Settled
         /\ hookRequests[c].tries <= 2
         /\ hookRequests[c].err # "null" => hookRequests[c].tries = 2

\* the same for the calls that made an attempt (a call made while another is
\* in flight returns without one)
C25_AttemptRetriesOnce ==
  \A c \in RequestIds :
    (requests[c].pc = "done" /\ requests[c].err # "null") => requests[c].tries = 2

\* C26: when a call of requestPermission that made an attempt returns, the
\* state is 'granted' after a success (first attempt or retry); after a
\* failure the error of the last attempt decides: NotAllowedError gives
\* 'blocked' and false, any other error gives 'error', false and that error in
\* lastError.
Returns(c) ==
  requests[c].pc # "done" /\ requests'[c].pc = "done" /\ requests'[c].tries >= 1

HookReturns(c) == hookRequests[c].pc # "done" /\ hookRequests'[c].pc = "done"

C26_LastFailureDecides ==
  [][/\ \A c \in RequestIds :
          Returns(c) =>
            IF requests'[c].result = "true" THEN state' = "granted"
            ELSE IF requests'[c].lastErr = "NotAllowedError"
            THEN state' = "blocked" /\ requests'[c].result = "false"
            ELSE /\ state' = "error" /\ requests'[c].result = "false"
                 /\ lastError' = requests'[c].lastErr
     /\ \A c \in HookRequestIds :
          HookReturns(c) =>
            IF hookRequests'[c].result = "true" THEN hookState' = "granted"
            ELSE IF hookRequests'[c].lastErr = "NotAllowedError"
            THEN hookState' = "blocked" /\ hookRequests'[c].result = "false"
            ELSE /\ hookState' = "error" /\ hookRequests'[c].result = "false"
                 /\ hookLastError' = hookRequests'[c].lastErr]_vars

\* the other reading: after a failure the error of the first attempt decides
C26_FirstFailureDecides ==
  [][/\ \A c \in RequestIds :
          (Returns(c) /\ requests'[c].result = "false") =>
            state' = FailedState(requests'[c].err)
     /\ \A c \in HookRequestIds :
          (HookReturns(c) /\ hookRequests'[c].result = "false") =>
            hookState' = FailedState(hookRequests'[c].err)]_vars

\* what both hooks do: success gives 'granted' and true, two failures with
\* NotAllowedError give 'blocked' and false
C26_AgreedCases ==
  [][/\ \A c \in RequestIds :
          Returns(c) =>
            /\ requests'[c].result = "true" => state' = "granted"
            /\ (requests'[c].result = "false"
                  /\ requests'[c].err = "NotAllowedError"
                  /\ requests'[c].lastErr = "NotAllowedError")
                 => state' = "blocked"
     /\ \A c \in HookRequestIds :
          HookReturns(c) =>
            /\ hookRequests'[c].result = "true" => hookState' = "granted"
            /\ (hookRequests'[c].result = "false"
                  /\ hookRequests'[c].err = "NotAllowedError"
                  /\ hookRequests'[c].lastErr = "NotAllowedError")
                 => hookState' = "blocked"]_vars

\* C27: when the tab becomes visible again while the state is 'blocked', one
\* call of checkExistingPermission is started in the same step, with no call
\* of getUserMedia and no change of the state; when the enumeration settles
\* the state becomes 'granted' if a labelled audio input is present, is left
\* alone if none is, and becomes 'error' if the enumeration fails; a settling
\* check makes no call of getUserMedia either.
C27_RecheckOnVisible ==
  /\ [][(~visible /\ visible' /\ state = "blocked") =>
          /\ checking' = checking + 1
          /\ checksStarted' = checksStarted + 1
          /\ requests' = requests
          /\ state' = state]_vars
  /\ [][CheckSettles("labelled") => (state' = "granted" /\ requests' = requests)]_vars
  /\ [][CheckSettles("none") => (state' = state /\ requests' = requests)]_vars
  /\ [][CheckSettles("fails") => (state' = "error" /\ requests' = requests)]_vars

\* a blocked hook was re-checked after the tab came back, and the re-check
\* found the microphone: no call of requestPermission succeeded
C27_Witness ==
  /\ checksStarted = 2 /\ checking = 0
  /\ visible /\ visibilityRecoveredRef
  /\ state = "granted"
  /\ \A c \in RequestIds : requests[c].result # "true"
  /\ \E c \in RequestIds : requests[c].result = "false" /\ requests[c].err = "NotAllowedError"

\* C28: choosing 'Record a voice message instead' in the recovery sheet
\* brings up the file-based recorder (AudioRecorderFallback).
C28_FallbackOpensRecorder ==
  [][onRecordFallback => "AudioRecorderFallback" \in Rendered']_vars

\* C29: after Reset in the recovery sheet the session is idle: isLiveActive
\* and isLiveMode are false, the ready flag is false, the frame buffer is
\* empty, and no stream, audio context or remote session of a failed attempt
\* is still open.
C29_ResetReturnsToIdle ==
  [][onReset =>
       /\ ~isLiveActive' /\ ~isLiveMode'
       /\ ~sessionReadyRef'
       /\ audioBufferQueueRef' = <<>>
       /\ \A a \in AttemptIds :
            attempts'[a].pc = "failed" =>
              /\ attempts'[a].stream # "live"
              /\ attempts'[a].inputCtx # "open"
              /\ attempts'[a].outputCtx # "open"
              /\ attempts'[a].session \notin {"open", "closing"}]_vars

\* C30: for every byte sequence b, the empty one included,
\* decodeBase64(encode(b)) has the length and the bytes of b.
C30_RoundTrip ==
  codecPc = "decoded" =>
    /\ Len(decoded) = Len(bytes)
    /\ \A i \in 1..Len(bytes) : decoded[i] = bytes[i]
    /\ decoded = bytes

\* a padded encoding of two bytes, one of them above 127, came back
C30_Witness ==
  /\ codecPc = "decoded"
  /\ Len(bytes) = 2 /\ bytes[1] = 255 /\ bytes[2] = 1
  /\ base64 = <<"/", "w", "E", "=">>
  /\ decoded = bytes

\* the empty sequence came back from the empty string
C30_WitnessEmpty ==
  codecPc = "decoded" /\ bytes = <<>> /\ base64 = <<>> /\ decoded = <<>>

\* C31: every stored 16-bit sample lies in [-32768, 32767] and has the sign
\* of the input sample it was made from (it is not negative for a positive
\* input and not positive for a negative one), in both components.
SignKept(in, out) ==
  /\ out >= -32768 /\ out <= 32767
  /\ in > 0 => out >= 0
  /\ in < 0 => out <= 0

C31_NoWrapAround ==
  /\ int16 # NotConverted =>
       \A i \in 1..Len(inputData) : SignKept(inputData[i], int16[i])
  /\ olderInt16 # NotConverted =>
       \A i \in 1..Len(inputData) : SignKept(inputData[i], olderInt16[i])

\* the same of the component with the clamp alone, with the values at the rails
C31_ClampedNoWrapAround ==
  int16 # NotConverted =>
    \A i \in 1..Len(inputData) :
      /\ SignKept(inputData[i], int16[i])
      /\ inputData[i] >= SampleUnit => int16[i] = 32767
      /\ inputData[i] <= 0 - SampleUnit => int16[i] = -32768

\* C32: at most one recorder started by the component is recording and at
\* most one microphone stream obtained by it is live at any time.
C32_OneRecorderLive ==
  /\ Cardinality({t \in TurnIds : turns[t].kind = "voice" /\ turns[t].pc = "rec"}) <= 1
  /\ Cardinality({t \in TurnIds : turns[t].kind = "voice" /\ turns[t].live}) <= 1

\* a recorder that is recording is the one mediaRecorderRef holds, so that
\* stopRecording can reach it
C32_RecorderReachable ==
  \A t \in TurnIds :
    (turns[t].kind = "voice" /\ turns[t].pc = "rec") => mediaRecorderRef = t

\* C33: when the speakText continuation of a turn whose speech the user
\* stopped runs while another voice turn is recording, processing or
\* speaking, it leaves voiceState as it is.
Underway(u) ==
  /\ turns[u].kind = "voice"
  /\ turns[u].pc \in {"rec", "stopped", "transcribe", "send1", "tool", "send2", "speak"}

C33_EarlierTurnLeavesLaterAlone ==
  [][\A t \in TurnIds :
       (/\ turns[t].kind = "voice" /\ turns[t].pc = "speak"
        /\ turns[t].utt = "cancelled"
        /\ turns'[t].pc = "done"
        /\ \E u \in TurnIds \ {t} : Underway(u))
       => voiceState' = voiceState]_vars

\* the same for the case the claim spells out: the later turn's recorder is
\* the current one and is recording, and voiceState is 'recording'
C33_RecordingStaysRecording ==
  [][\A t \in TurnIds :
       (/\ turns[t].kind = "voice" /\ turns[t].pc = "speak"
        /\ turns[t].utt = "cancelled"
        /\ turns'[t].pc = "done"
        /\ isOpen
        /\ voiceState = "recording"
        /\ \E u \in TurnIds : u > t /\ mediaRecorderRef = u /\ RecorderActive(u))
       => voiceState' = "recording"]_vars

\* C34: no chunk that arrived before an interruption is started after it:
\* no source is started by a handler that was waiting for the context when
\* the interruption came, or whose chunk came in the interruption's message.
C34_NoStartAfterInterruption ==
  \A i \in 1..Len(scheduled) : ~scheduled[i].late /\ ~scheduled[i].cut

\* the case of the handler suspended at ctx.resume() alone
C34_NoLateStart ==
  \A i \in 1..Len(scheduled) : ~scheduled[i].late

\* C35: when a start installs a new output context, the scheduling cursor
\* is not ahead of that context's clock and the set of active sources is
\* empty.
C35_FreshPlaybackState ==
  [][outputAudioContextRef' # outputAudioContextRef =>
       (nextStartTimeRef' <= outputClock' /\ activeSourcesRef' = {})]_vars

\* the first chunk scheduled on the new context starts at its clock
C35_FirstChunkAtClock ==
  [][(/\ outputAudioContextRef = 2
      /\ Len(scheduled') = Len(scheduled) + 1
      /\ \A i \in 1..Len(scheduled) : scheduled[i].stopped
      /\ ~scheduled'[Len(scheduled')].cut)
     => scheduled'[Len(scheduled')].start = outputClock]_vars

\* C36: in the hardened hook a call made while another is in flight returns
\* false at once, with no acquisition attempt and no change of the state or
\* of lastError; the in-flight flag is set exactly while a call is between
\* its first attempt and its return, so it is false after every exit.
InFlightRequests == {c \in RequestIds : requests[c].pc \in {"first", "delay", "retry"}}

C36_DuplicateCallRefused ==
  /\ [](requestingRef <=> InFlightRequests # {})
  /\ [](Cardinality(InFlightRequests) <= 1)
  /\ [][\A c \in RequestIds :
          (requests[c].pc = "free" /\ requests'[c].pc # "free" /\ requestingRef)
          => /\ requests'[c].pc = "done"
             /\ requests'[c].result = "false"
             /\ requests'[c].tries = 0
             /\ state' = state
             /\ lastError' = lastError
             /\ requestingRef']_vars
  /\ [][\A c \in RequestIds :
          (requests[c].tries >= 1 /\ requests[c].pc # "done" /\ requests'[c].pc = "done")
          => ~requestingRef']_vars

\* a call was refused while another was in flight; that one failed after its
\* retry, and a third call could start afterwards
C36_Witness ==
  /\ requests[1].pc = "done" /\ requests[1].tries = 2 /\ requests[1].result = "false"
  /\ requests[2].pc = "done" /\ requests[2].tries = 0 /\ requests[2].result = "false"
  /\ requests[3].pc = "first"
  /\ requestingRef

\* C37: if every pending stop event, remote call, tool search and utterance
\* event is delivered in the end, 'processing' leads to 'speaking' or 'idle'
\* and 'speaking' leads to 'idle'.
C37_ProcessingEnds ==
  /\ (voiceState = "processing") ~> (voiceState \in {"speaking", "idle"})
  /\ (voiceState = "speaking") ~> (voiceState = "idle")

\* a recorded turn has left 'processing' and is being spoken
C37_Witness ==
  /\ voiceState = "speaking"
  /\ \E t \in TurnIds :
       /\ turns[t].kind = "voice" /\ turns[t].pc = "speak"
       /\ turns[t].utt = "active"
  /\ \E i \in 1..Len(messages) : messages[i].role = "user"

\* the tool invocations that have not settled
Invoking == {h \in MessageIds : handlers[h].pc = "search"}

\* C38: the responses sent so far answer the calls received first, one each
\* and in the order of receipt, and at most one tool invocation is pending at
\* any time.
C38_OneResponseInOrderNoOverlap ==
  /\ Len(functionResponses) <= Len(functionCalls)
  /\ \A i \in 1..Len(functionResponses) : functionResponses[i].id = functionCalls[i].id
  /\ Cardinality(Invoking) <= 1

\* (C38) the responses are sent in the order the calls were received
C38_ResponsesInOrder ==
  \A i, j \in 1..Len(functionResponses) :
    i < j => functionResponses[i].id < functionResponses[j].id

\* (C38) tool invocations never run concurrently
C38_NoConcurrentInvocation == Cardinality(Invoking) <= 1

\* (C38) every call gets exactly one response carrying its id: no id is
\* answered twice, only received calls are answered, and once no invocation is
\* pending every received call is answered
C38_EveryCallAnswered ==
  /\ \A i, j \in 1..Len(functionResponses) :
       functionResponses[i].id = functionResponses[j].id => i = j
  /\ \A i \in 1..Len(functionResponses) :
       \E k \in 1..Len(functionCalls) :
         /\ functionCalls[k].id = functionResponses[i].id
         /\ functionCalls[k].name = functionResponses[i].name
  /\ Invoking = {} => Len(functionResponses) = Len(functionCalls)

\* (C38) a failed search is answered like any other, with an empty result
C38_FailedSearchAnswered ==
  [][\A h \in MessageIds :
       (handlers[h].pc = "search" /\ handlers'[h] # handlers[h]) =>
         \E i \in 1..Len(functionResponses') :
           /\ functionResponses'[i].id = handlers[h].calls[handlers[h].idx].id
           /\ i > Len(functionResponses)]_vars

\* (C38) the responses in the order of receipt while one message is handled
C38_InOrderWithinMessage ==
  \A i, j \in 1..Len(functionResponses) :
    (/\ i < j
     /\ \E h \in MessageIds :
          {functionResponses[i].id, functionResponses[j].id}
            \subseteq {handlers[h].calls[k].id : k \in 1..Len(handlers[h].calls)})
    => functionResponses[i].id < functionResponses[j].id

====
